---------------------------- MODULE Spec2Model ----------------------------
(***************************************************************************)
(* Model of the backend of grafana-catalyst-datasource:                    *)
(*   pkg/backend/token.go       tokenManager (getToken, set, setWithExpiry)*)
(*   pkg/backend/datasource.go  Datasource.QueryData (issue list branch)   *)
(*   pkg/backend/params.go      clampLimit, paging and priority parameters *)
(*                                                                         *)
(* Each element of Procs is one goroutine executing QueryData for a single *)
(* query.  The goroutines share the tokenManager (cache and mu).  An HTTP  *)
(* exchange (request and response) is one step whose response is chosen by *)
(* the server, i.e. nondeterministically.  Strings that the code trims are *)
(* sequences of one-character strings; records of a page are counted, not  *)
(* stored.  Time is Unix seconds relative to the start of the run.         *)
(***************************************************************************)
EXTENDS Integers, Sequences, FiniteSets, TLC

VARIABLES
    now,        \* time.Now().Unix()
    ticks,      \* number of clock advances so far (bounded by MaxTicks)
    cache,      \* tokenManager.cache : instance UID -> tokenEntry (or NoEntry)
    mu,         \* tokenManager.mu : Free or the goroutine holding it
    pc,         \* position of each goroutine
    settings,   \* InstanceSettings and UID of the request a goroutine serves
    qm,         \* QueryModel of the query (Limit, Enrich)
    hardLimit,  \* QueryData: hardLimit
    allIssues,  \* QueryData: len(allIssues)
    issuePrio,  \* QueryData: the priorities that occur in the records of allIssues
    offset,     \* QueryData: offset
    reqURL,     \* QueryData: reqURL, as its paging parameters <<limit, offset>>
    token,      \* QueryData / getSiteNamesByID: token
    drError,    \* QueryData: dr.Error ("" when nil)
    ret,        \* call site a running getToken returns to
    pend,       \* arguments of the pending set / setWithExpiry call
    result,     \* response entry of the finished query
    callLogins, \* history: login POSTs issued by the current getToken call
    wire,       \* history: URLs of the list GETs of the current loop iteration
    hist,       \* history: flags about the current query
    host,       \* the host: goroutines it runs, settings and queries it passes
    req,        \* QueryData: req.Queries, the part not yet run and the RefID at hand
    resp,       \* QueryData: resp.Responses, RefID -> entry
    ctx,        \* QueryData: ctx, cancelled or not, and where the query then was
    pcall       \* a call of a function of params.go: its argument and its value

vars == <<now, ticks, cache, mu, pc, settings, qm, hardLimit, allIssues, issuePrio, offset,
          reqURL, token, drError, ret, pend, result, callLogins, wire, hist,
          host, req, resp, ctx, pcall>>

---------------------------------------------------------------------------
(* Bounds of the model *)

MaxTicks == 2          \* clock advances per run
TickStep == 300        \* seconds per clock advance
OverDeliver == 1       \* records a page may carry beyond the requested limit
MaxQueries == 2        \* queries in one QueryData request
MaxPriorities == 3     \* values in the priority list of a query
MaxStatuses == 2       \* values in the status list of a query
MaxPathLen == 6        \* pieces in the path of a base URL
MaxOdd == 1            \* fields of a record with a null, empty or mistyped value

Procs == {"q1", "q2"}
Instances == {"u1", "u2"}

(* Program constants *)

PageSize == 25         \* datasource.go: pageSize := 25
DefaultHardLimit == 25 \* datasource.go: var hardLimit int64 = 25
DefaultTTL == 3300     \* token.go set: 55 * time.Minute, in seconds
MinTTL == 300          \* token.go setWithExpiry: minTTL = 5 * time.Minute
ExpiryGuard == 60      \* token.go setWithExpiry: now.Add(1*time.Minute)
IssuesDefLimit == 100  \* params.go: clampLimit(pageSize, 100, 1, 1000)
IssuesMinLimit == 1
IssuesMaxLimit == 1000
SiteHealthDefLimit == 25   \* params.go: clampLimit(pageSize, 25, 1, 50)
SiteHealthMinLimit == 1
SiteHealthMaxLimit == 50

Free == "free"
NoEntry == [Token |-> <<"?">>, ExpiresAt |-> -1, present |-> FALSE]
Entry(tok, exp) == [Token |-> tok, ExpiresAt |-> exp, present |-> TRUE]

---------------------------------------------------------------------------
(* strings.TrimSpace on a sequence of characters *)

IsSpace(c) == c = " "

RECURSIVE TrimLeft(_)
TrimLeft(s) ==
    IF s = <<>> THEN <<>>
    ELSE IF IsSpace(Head(s)) THEN TrimLeft(Tail(s)) ELSE s

RECURSIVE TrimRight(_)
TrimRight(s) ==
    IF s = <<>> THEN <<>>
    ELSE IF IsSpace(s[Len(s)]) THEN TrimRight(SubSeq(s, 1, Len(s) - 1)) ELSE s

(* The value used as it is configured *)
TrimSpace_Identity(s) == s
TrimSpace(s) == TrimRight(TrimLeft(s))

(* The letters of the alphabet, in lower and in upper case *)
LowerLetters ==
    <<"a", "b", "c", "d", "e", "f", "g", "h", "i", "j", "k", "l", "m",
      "n", "o", "p", "q", "r", "s", "t", "u", "v", "w", "x", "y", "z">>
UpperLetters ==
    <<"A", "B", "C", "D", "E", "F", "G", "H", "I", "J", "K", "L", "M",
      "N", "O", "P", "Q", "R", "S", "T", "U", "V", "W", "X", "Y", "Z">>

(* strings.ToUpper and strings.ToLower, character by character *)
UpperChar(c) ==
    IF \E i \in 1..Len(LowerLetters) : LowerLetters[i] = c
    THEN UpperLetters[CHOOSE i \in 1..Len(LowerLetters) : LowerLetters[i] = c]
    ELSE c
LowerChar(c) ==
    IF \E i \in 1..Len(UpperLetters) : UpperLetters[i] = c
    THEN LowerLetters[CHOOSE i \in 1..Len(UpperLetters) : UpperLetters[i] = c]
    ELSE c

(* The value compared as it is written *)
ToUpper_Identity(s) == s
ToUpper(s) == [k \in 1..Len(s) |-> UpperChar(s[k])]

(* The status sent in the case it was selected in *)
ToLower_Identity(s) == s
ToLower(s) == [k \in 1..Len(s) |-> LowerChar(s[k])]

(* strings.Join *)
RECURSIVE Join(_, _)
Join(ss, sep) ==
    IF ss = <<>> THEN <<>>
    ELSE IF Len(ss) = 1 THEN ss[1]
    ELSE ss[1] \o sep \o Join(Tail(ss), sep)

(* params.go 40-46: allowedPriority *)
allowedPriority == { <<"P", "1">>, <<"P", "2">>, <<"P", "3">>, <<"P", "4">> }

(* params.go normalizePriority *)
normalizePriority(priority, severity) ==
    LET pr == ToUpper(TrimSpace(priority))
        sv == ToUpper(TrimSpace(severity))
    IN  IF pr \in allowedPriority THEN [val |-> pr, ok |-> TRUE]
        ELSE IF sv \in allowedPriority THEN [val |-> sv, ok |-> TRUE]
        ELSE [val |-> <<>>, ok |-> FALSE]

(* params.go 137-142: validPriorities, for the list ps of q.Priority *)
RECURSIVE validPriorities(_)
validPriorities(ps) ==
    IF ps = <<>> THEN <<>>
    ELSE LET n == normalizePriority(Head(ps), <<>>)
         IN  (IF n.ok THEN <<n.val>> ELSE <<>>) \o validPriorities(Tail(ps))

(* params.go 135-146: the priority parameter of the request, set or not *)
PriorityParam(ps) ==
    LET v == validPriorities(ps)
    IN  IF Len(ps) > 0 /\ Len(v) > 0
        THEN [set |-> TRUE, value |-> Join(v, <<",">>)]
        ELSE [set |-> FALSE, value |-> <<>>]

(* params.go 40-46: allowedIssueStatus *)
allowedIssueStatus ==
    { <<"A", "C", "T", "I", "V", "E">>,
      <<"R", "E", "S", "O", "L", "V", "E", "D">>,
      <<"I", "G", "N", "O", "R", "E", "D">> }

(* The legacy field read before the primary one *)
normalizeIssueStatus_LegacyFirst(issueStatus, status) ==
    LET is == ToUpper(TrimSpace(issueStatus))
        st == ToUpper(TrimSpace(status))
    IN  IF st \in allowedIssueStatus THEN [val |-> st, ok |-> TRUE]
        ELSE IF is \in allowedIssueStatus THEN [val |-> is, ok |-> TRUE]
        ELSE [val |-> <<>>, ok |-> FALSE]

(* params.go normalizeIssueStatus *)
normalizeIssueStatus(issueStatus, status) ==
    LET is == ToUpper(TrimSpace(issueStatus))
        st == ToUpper(TrimSpace(status))
    IN  IF is \in allowedIssueStatus THEN [val |-> is, ok |-> TRUE]
        ELSE IF st \in allowedIssueStatus THEN [val |-> st, ok |-> TRUE]
        ELSE [val |-> <<>>, ok |-> FALSE]

(* params.go 150-154: the valid statuses of the list ss of q.Status, in    *)
(* lower case                                                              *)
RECURSIVE validStatuses(_)
validStatuses(ss) ==
    IF ss = <<>> THEN <<>>
    ELSE LET n == normalizeIssueStatus(Head(ss), <<>>)
         IN  (IF n.ok THEN <<ToLower(n.val)>> ELSE <<>>) \o validStatuses(Tail(ss))

(* params.go 148-158: the status parameter of the request, set or not *)
StatusParam(ss) ==
    LET v == validStatuses(ss)
    IN  IF Len(ss) > 0 /\ Len(v) > 0
        THEN [set |-> TRUE, value |-> Join(v, <<",">>)]
        ELSE [set |-> FALSE, value |-> <<>>]

(* A page size above the maximum sent as it is *)
clampLimit_NoMax(n, def, min, max) ==
    IF n <= 0 THEN def
    ELSE IF n < min THEN min
    ELSE n

(* params.go clampLimit *)
clampLimit(n, def, min, max) ==
    IF n <= 0 THEN def
    ELSE IF n < min THEN min
    ELSE IF n > max THEN max
    ELSE n

(* Every request asking for a full page *)
PagingParams_FullPage(pageSize, off) == <<PageSize, IF off < 1 THEN 1 ELSE off>>

(* params.go buildAssuranceParamsFromQuery: the paging parameters *)
PagingParams(pageSize, off) ==
    <<clampLimit(pageSize, IssuesDefLimit, IssuesMinLimit, IssuesMaxLimit),
      IF off < 1 THEN 1 ELSE off>>

(* strconv.Itoa and strconv.FormatInt(n, 10): the decimal text of n *)
Digits == <<"0", "1", "2", "3", "4", "5", "6", "7", "8", "9">>

RECURSIVE Itoa(_)
Itoa(n) ==
    IF n < 0 THEN <<"-">> \o Itoa(0 - n)
    ELSE IF n < 10 THEN <<Digits[n + 1]>>
    ELSE Itoa(n \div 10) \o <<Digits[(n % 10) + 1]>>

(* url.Values: the parameter k with the value v when it is set, and no     *)
(* parameter when it is not                                                *)
NoParams == [k \in {} |-> <<>>]
Opt(k, set, v) == IF set THEN k :> v ELSE NoParams

(* A time of zero sent like any other *)
WindowParam_NonNegative(k, t) == Opt(k, t >= 0, Itoa(t))

(* params.go 116-122: startTime and endTime *)
WindowParam(k, t) == Opt(k, t > 0, Itoa(t))

(* The filter sent as it was typed *)
ScalarParam_Untrimmed(k, s) == Opt(k, s # <<>>, s)

(* params.go 124-133 and 30-32: a filter that is one string *)
ScalarParam(k, s) == LET t == TrimSpace(s) IN Opt(k, t # <<>>, t)

(* datasource.go 95 and model.go 162-181: json.Unmarshal of the query      *)
(* document into a QueryModel.  A key of the document that no field of     *)
(* QueryModel is tagged with is dropped.                                   *)
QueryModelOf(doc) ==
    [Priority |-> doc.priority, Status |-> doc.status, Device |-> doc.device,
     MAC |-> doc.mac, Site |-> doc.site, SiteType |-> doc.siteType, To |-> doc.to]

(* params.go buildAssuranceParamsFromQuery *)
buildAssuranceParamsFromQuery(q, startTime, endTime, pageSize, off) ==
    LET paging == PagingParams(pageSize, off)
        pr == PriorityParam(q.Priority)
        st == StatusParam(q.Status)
    IN  ("limit" :> Itoa(paging[1])) @@ ("offset" :> Itoa(paging[2]))
        @@ WindowParam("startTime", startTime) @@ WindowParam("endTime", endTime)
        @@ ScalarParam("siteId", q.Site) @@ ScalarParam("deviceId", q.Device)
        @@ ScalarParam("macAddress", q.MAC)
        @@ Opt("priority", pr.set, pr.value) @@ Opt("status", st.set, st.value)

(* params.go buildSiteHealthParamsFromQuery; q.To is q.TimeRange.To *)
buildSiteHealthParamsFromQuery(q, pageSize, off) ==
    ("limit" :> Itoa(clampLimit(pageSize, SiteHealthDefLimit, SiteHealthMinLimit,
                                SiteHealthMaxLimit)))
    @@ ("offset" :> Itoa(IF off < 1 THEN 1 ELSE off))
    @@ ScalarParam("siteType", q.SiteType)
    @@ Opt("timestamp", ~q.To.isZero, Itoa(q.To.unixMilli))

---------------------------------------------------------------------------
(* The records of the issue list.  A record maps the keys it has to JSON   *)
(* values: a string, a number or null.                                     *)

Str(v) == [t |-> "string", s |-> v, n |-> 0, d |-> 0]
Num(n) == [t |-> "number", s |-> <<>>, n |-> n, d |-> 0]
Null == [t |-> "null", s |-> <<>>, n |-> 0, d |-> 0]
(* The JSON number n.d, of one decimal *)
Frac(n, d) == [t |-> "number", s |-> <<>>, n |-> n, d |-> d]

(* datasource.go 321-328: getStr *)
getStr(it, k) ==
    IF k \in DOMAIN it /\ it[k].t = "string" THEN it[k].s ELSE <<>>

(* datasource.go 329-342: getNum; int64(x) keeps the whole part of the     *)
(* float64 a JSON number decodes to                                        *)
getNum(it, k) ==
    IF k \in DOMAIN it /\ it[k].t = "number" THEN it[k].n ELSE 0

(* Only the first name read *)
firstNonEmpty_FirstOnly(vals) == vals[1]

(* datasource.go firstNonEmpty *)
firstNonEmpty(vals) ==
    IF \E i \in 1..Len(vals) : TrimSpace(vals[i]) # <<>>
    THEN vals[CHOOSE i \in 1..Len(vals) :
                 /\ TrimSpace(vals[i]) # <<>>
                 /\ \A j \in 1..(i - 1) : TrimSpace(vals[j]) = <<>>]
    ELSE <<>>

(* Only the first number read *)
firstNonZero_FirstOnly(vals) == vals[1]

(* datasource.go firstNonZero *)
firstNonZero(vals) ==
    IF \E i \in 1..Len(vals) : vals[i] # 0
    THEN vals[CHOOSE i \in 1..Len(vals) :
                 vals[i] # 0 /\ \A j \in 1..(i - 1) : vals[j] = 0]
    ELSE 0

(* datasource.go 344-367: the row of the record it, with the site names    *)
(* that were resolved, a set of pairs of a site id and its name, and the   *)
(* start of the time range of the query                                    *)
Row(it, siteIDToNameMap, from) ==
    LET siteID == getStr(it, "siteId")
        timeMs == firstNonZero(<<getNum(it, "timestamp"), getNum(it, "firstOccurredTime"),
                                 getNum(it, "startTime")>>)
    IN  [TimeMs |-> IF timeMs = 0 THEN from ELSE timeMs,
         ID |-> firstNonEmpty(<<getStr(it, "issueId"), getStr(it, "id"),
                                getStr(it, "instanceId")>>),
         Title |-> firstNonEmpty(<<getStr(it, "name"), getStr(it, "title"),
                                   getStr(it, "issueTitle")>>),
         Severity |-> firstNonEmpty(<<getStr(it, "priority"), getStr(it, "severity")>>),
         Status |-> firstNonEmpty(<<getStr(it, "issueStatus"), getStr(it, "status")>>),
         Category |-> firstNonEmpty(<<getStr(it, "category"), getStr(it, "type")>>),
         Device |-> firstNonEmpty(<<getStr(it, "deviceId"), getStr(it, "deviceIp"),
                                    getStr(it, "device")>>),
         MAC |-> firstNonEmpty(<<getStr(it, "macAddress"), getStr(it, "clientMac")>>),
         Site |-> IF \E e \in siteIDToNameMap : e[1] = siteID
                  THEN (CHOOSE e \in siteIDToNameMap : e[1] = siteID)[2] ELSE siteID,
         Rule |-> getStr(it, "ruleId"),
         Details |-> firstNonEmpty(<<getStr(it, "description"), getStr(it, "details"),
                                     getStr(it, "issueDescription")>>)]

(* datasource.go 298-303: the site ids of the records, those that are a    *)
(* string other than ""                                                    *)
uniqueSiteIDs(issues) ==
    { getStr(issues[i], "siteId") : i \in 1..Len(issues) } \ { <<>> }

(* datasource.go 305-308: the ids in the order the map is ranged over,     *)
(* which is any order                                                      *)
Orders(ids) ==
    { f \in [1..Cardinality(ids) -> ids] :
        \A i, j \in 1..Cardinality(ids) : f[i] = f[j] => i = j }

(* Every site of the response kept *)
nameMap_KeepEmpty(response) ==
    { <<response[i].ID, response[i].Name>> : i \in 1..Len(response) }

(* datasource.go 458-463: the names by id, a site with an empty id or name *)
(* left out, and the last of the sites of one id kept                      *)
nameMap(response) ==
    LET kept == { i \in 1..Len(response) :
                    response[i].ID # <<>> /\ response[i].Name # <<>> }
    IN  { <<response[i].ID, response[i].Name>> :
            i \in { k \in kept : \A j \in kept : response[j].ID = response[k].ID => j <= k } }

(* datasource.go 422-465: getSiteNamesByID with the ids siteIDs and the    *)
(* answer site: the requests it sends, each the value of its siteId        *)
(* parameter, and the mapping and the error it returns                     *)
getSiteNamesByID(site, siteIDs) ==
    IF ~site.tokenOk
    THEN [sent |-> <<>>, names |-> {}, err |-> "token for site lookup"]
    ELSE IF site.status < 200 \/ site.status >= 300
    THEN [sent |-> <<Join(siteIDs, <<",">>)>>, names |-> {},
          err |-> "site endpoint returned"]
    ELSE [sent |-> <<Join(siteIDs, <<",">>)>>, names |-> nameMap(site.response),
          err |-> ""]

(* datasource.go 141-153: the sites of the response that pass the filter   *)
(* of the query; site[k] != name holds unless site[k] is the string name   *)
filtered(response, parentSiteName, siteName) ==
    LET is(site, k, name) ==
            k \in DOMAIN site /\ site[k].t = "string" /\ site[k].s = name
        passes(site) ==
            /\ parentSiteName = <<>> \/ is(site, "parentSiteName", parentSiteName)
            /\ siteName = <<>> \/ is(site, "siteName", siteName)
    IN  SelectSeq(response, passes)

(* datasource.go 157-172: the values of the field of a metric: for each    *)
(* site the whole part of its number, 0 when the site has no such key,     *)
(* and nothing when the value is of another type                           *)
RECURSIVE metricField(_, _)
metricField(metric, sites) ==
    IF sites = <<>> THEN <<>>
    ELSE LET site == Head(sites)
             rest == metricField(metric, Tail(sites))
         IN  IF metric \notin DOMAIN site THEN <<0>> \o rest
             ELSE IF site[metric].t = "number" THEN <<site[metric].n>> \o rest
             ELSE rest

---------------------------------------------------------------------------
(* URLs.  A URL is a text made of pieces: its scheme and host in one       *)
(* piece, then "/", "?", "#" and pieces of text that hold none of these.   *)
(* A path segment is the pieces between two "/"; it is the text dna when   *)
(* it is the one piece "dna".                                              *)

(* The index of the first c in s, or 0 *)
IndexOf(s, c) ==
    IF \E i \in 1..Len(s) : s[i] = c
    THEN CHOOSE i \in 1..Len(s) : s[i] = c /\ \A j \in 1..(i - 1) : s[j] # c
    ELSE 0

(* strings.Split(s, "/") *)
RECURSIVE Split(_)
Split(s) ==
    LET i == IndexOf(s, "/")
    IN  IF i = 0 THEN <<s>>
        ELSE <<SubSeq(s, 1, i - 1)>> \o Split(SubSeq(s, i + 1, Len(s)))

(* strings.TrimRight(s, "/") *)
RECURSIVE TrimSlashes(_)
TrimSlashes(s) ==
    IF s # <<>> /\ s[Len(s)] = "/" THEN TrimSlashes(SubSeq(s, 1, Len(s) - 1)) ELSE s

(* model.go dnacPrefix *)
dnacPrefix(p) ==
    IF p = <<>> THEN <<>>
    ELSE LET segs == Split(p)
             found == \E i \in 1..Len(segs) : segs[i] = <<"dna">>
             idx == CHOOSE i \in 1..Len(segs) :
                        segs[i] = <<"dna">> /\ \A j \in 1..(i - 1) : segs[j] # <<"dna">>
             joined == Join(SubSeq(segs, 1, idx - 1), <<"/">>)
             prefix == IF joined # <<>> /\ joined[1] # "/" THEN <<"/">> \o joined ELSE joined
         IN  IF ~found THEN <<>> ELSE TrimSlashes(prefix)

(* url.Parse of a URL with a scheme and a host: the fragment is what       *)
(* follows the first "#"; ForceQuery is set when the rest ends with its    *)
(* only "?", and the query is otherwise what follows the first "?"; the    *)
(* path is what is left after the scheme and the host                      *)
Parse(raw) ==
    LET h == IndexOf(raw, "#")
        rest == IF h = 0 THEN raw ELSE SubSeq(raw, 1, h - 1)
        frag == IF h = 0 THEN <<>> ELSE SubSeq(raw, h + 1, Len(raw))
        q == IndexOf(rest, "?")
        force == q # 0 /\ q = Len(rest)
        hier == IF q = 0 THEN rest ELSE SubSeq(rest, 1, q - 1)
    IN  [Origin |-> raw[1], Path |-> Tail(hier),
         ForceQuery |-> force,
         RawQuery |-> IF q = 0 \/ force THEN <<>> ELSE SubSeq(rest, q + 1, Len(rest)),
         Fragment |-> frag]

(* url.URL.String *)
String(u) ==
    <<u.Origin>> \o u.Path
    \o (IF u.ForceQuery \/ u.RawQuery # <<>> THEN <<"?">> \o u.RawQuery ELSE <<>>)
    \o (IF u.Fragment # <<>> THEN <<"#">> \o u.Fragment ELSE <<>>)

(* model.go 102: the path of the issue list under the prefix *)
IssuesPath ==
    <<"/", "dna", "/", "data", "/", "api", "/", "v1", "/", "assuranceIssues">>

(* model.go IssuesURL *)
IssuesURL(base) ==
    LET u == Parse(base)
        prefix == dnacPrefix(u.Path)
    IN  String([u EXCEPT !.Path = prefix \o IssuesPath,
                         !.RawQuery = <<>>, !.Fragment = <<>>])

---------------------------------------------------------------------------
(* The login endpoint's response, as getToken reads it.  A numeric header  *)
(* or JSON field is an integer; 0 stands for absent or unparsable, which   *)
(* the code treats like a value that is not positive.  Dates are epochs.   *)

NoResp ==
    [transportErr |-> FALSE, status |-> 200,
     xAuthToken |-> <<>>, bodyToken |-> <<>>, bodyToken2 |-> <<>>,
     xAuthTokenExpiresIn |-> 0, xTokenExpiresIn |-> 0,
     xAuthTokenExpiry |-> 0, xTokenExpiry |-> 0,
     maxAge |-> 0, expires |-> 0,
     expiresIn |-> 0, expires_in |-> 0, expiresAt |-> 0, expiry |-> 0,
     expiration |-> 0, expireTime |-> 0]

(* Cache-Control read before the expiry headers *)
parseExpiryFromHeaders_MaxAgeFirst(h, t) ==
    IF h.maxAge > 0 THEN [ok |-> TRUE, expAt |-> t + h.maxAge]
    ELSE IF h.xAuthTokenExpiresIn > 0 THEN [ok |-> TRUE, expAt |-> t + h.xAuthTokenExpiresIn]
    ELSE IF h.xTokenExpiresIn > 0 THEN [ok |-> TRUE, expAt |-> t + h.xTokenExpiresIn]
    ELSE IF h.xAuthTokenExpiry > t THEN [ok |-> TRUE, expAt |-> h.xAuthTokenExpiry]
    ELSE IF h.xTokenExpiry > t THEN [ok |-> TRUE, expAt |-> h.xTokenExpiry]
    ELSE IF h.expires > t THEN [ok |-> TRUE, expAt |-> h.expires]
    ELSE [ok |-> FALSE, expAt |-> 0]

(* token.go parseExpiryFromHeaders *)
parseExpiryFromHeaders(h, t) ==
    IF h.xAuthTokenExpiresIn > 0 THEN [ok |-> TRUE, expAt |-> t + h.xAuthTokenExpiresIn]
    ELSE IF h.xTokenExpiresIn > 0 THEN [ok |-> TRUE, expAt |-> t + h.xTokenExpiresIn]
    ELSE IF h.xAuthTokenExpiry > t THEN [ok |-> TRUE, expAt |-> h.xAuthTokenExpiry]
    ELSE IF h.xTokenExpiry > t THEN [ok |-> TRUE, expAt |-> h.xTokenExpiry]
    ELSE IF h.maxAge > 0 THEN [ok |-> TRUE, expAt |-> t + h.maxAge]
    ELSE IF h.expires > t THEN [ok |-> TRUE, expAt |-> h.expires]
    ELSE [ok |-> FALSE, expAt |-> 0]

(* token.go deriveExpiryFromJSON *)
deriveExpiryFromJSON(b, t) ==
    IF b.expiresIn > 0 THEN [ok |-> TRUE, expAt |-> t + b.expiresIn]
    ELSE IF b.expires_in > 0 THEN [ok |-> TRUE, expAt |-> t + b.expires_in]
    ELSE IF b.expiresAt > t + 60 THEN [ok |-> TRUE, expAt |-> b.expiresAt]
    ELSE IF b.expiry > t + 60 THEN [ok |-> TRUE, expAt |-> b.expiry]
    ELSE IF b.expiration > 0
         THEN IF b.expiration > t + 60
              THEN [ok |-> TRUE, expAt |-> b.expiration]
              ELSE [ok |-> TRUE, expAt |-> t + b.expiration]
    ELSE IF b.expireTime > t + 60 THEN [ok |-> TRUE, expAt |-> b.expireTime]
    ELSE [ok |-> FALSE, expAt |-> 0]

SetCall(tok, k) == [fn |-> "set", token |-> tok, expAt |-> 0, then |-> k]
SetWithExpiryCall(tok, e, k) ==
    [fn |-> "setWithExpiry", token |-> tok, expAt |-> e, then |-> k]
NoCall == [fn |-> "none", token |-> <<>>, expAt |-> 0, then |-> "none"]

(* The field "token" read before the field "Token" *)
bodyToken_LowerFirst(r) ==
    IF TrimSpace(r.bodyToken2) # <<>> THEN TrimSpace(r.bodyToken2)
    ELSE TrimSpace(r.bodyToken)

(* token.go 107-110: the token of the JSON body *)
bodyToken(r) ==
    IF TrimSpace(r.bodyToken) # <<>> THEN TrimSpace(r.bodyToken)
    ELSE TrimSpace(r.bodyToken2)

(* token.go getToken, lines 72-130: what the call does with the response r *)
(* of the login POST received at time t: an error, or the set /            *)
(* setWithExpiry call that stores the token it then returns.               *)
LoginOutcome(r, t) ==
    LET hdr == parseExpiryFromHeaders(r, t)
        js == deriveExpiryFromJSON(r, t)
        htok == TrimSpace(r.xAuthToken)
        btok == bodyToken(r)
    IN  IF r.transportErr THEN [err |-> "transport", call |-> NoCall]
        ELSE IF r.status < 200 \/ r.status >= 300
             THEN [err |-> "token endpoint returned non-2xx", call |-> NoCall]
        ELSE IF htok # <<>>
             THEN IF hdr.ok
                  THEN [err |-> "", call |-> SetWithExpiryCall(htok, hdr.expAt, "return")]
                  ELSE [err |-> "", call |-> SetCall(htok, "return")]
        ELSE IF btok = <<>>
             THEN [err |-> "token not found in response", call |-> NoCall]
        ELSE IF hdr.ok
             THEN [err |-> "", call |-> SetWithExpiryCall(btok, hdr.expAt, "return")]
        ELSE IF js.ok
             THEN [err |-> "", call |-> SetWithExpiryCall(btok, js.expAt, "return")]
        ELSE [err |-> "", call |-> SetCall(btok, "return")]

(* set storing the time of the call instead of the time plus the TTL *)
StoredExpiry_NoTTL(c, t) ==
    IF c.fn = "set" THEN t
    ELSE IF c.expAt <= t + ExpiryGuard THEN t + MinTTL
    ELSE c.expAt

(* setWithExpiry without its guard *)
StoredExpiry_NoGuard(c, t) ==
    IF c.fn = "set" THEN t + DefaultTTL ELSE c.expAt

(* token.go set / setWithExpiry: the expiry stored by a call made at time t *)
StoredExpiry(c, t) ==
    IF c.fn = "set" THEN t + DefaultTTL
    ELSE IF c.expAt <= t + ExpiryGuard THEN t + MinTTL
    ELSE c.expAt

(* An entry taken for usable whatever its token *)
Usable_AnyToken(e, t) == e.present /\ t < e.ExpiresAt

(* The expiry comparison the wrong way round *)
Usable_Reversed(e, t) == e.present /\ t > e.ExpiresAt /\ TrimSpace(e.Token) # <<>>

(* token.go getToken, line 49: the cached entry e is returned at time t *)
Usable(e, t) == e.present /\ t < e.ExpiresAt /\ TrimSpace(e.Token) # <<>>

(* Responses the login endpoint gives in the runs explored *)
LoginResponses(t) ==
    { [NoResp EXCEPT !.transportErr = TRUE],
      [NoResp EXCEPT !.status = 500],
      NoResp,
      [NoResp EXCEPT !.xAuthToken = <<" ", "a">>, !.expiresIn = 120],
      [NoResp EXCEPT !.bodyToken2 = <<"b", " ">>, !.expires_in = 30] }

---------------------------------------------------------------------------
(* Inputs *)

Nil == <<>>            \* a nil *int64; <<n>> points to n

Creds(u) ==
    [UID |-> u, BaseURLOk |-> TRUE, Username |-> "admin", Password |-> "pw",
     APIToken |-> <<>>]

SettingsSet ==
    { Creds("u1"), Creds("u2"),
      [Creds("u1") EXCEPT !.APIToken = <<" ", "o", " ">>],
      [Creds("u1") EXCEPT !.APIToken = <<"o">>, !.Username = ""],
      [Creds("u1") EXCEPT !.APIToken = <<" ">>],
      [Creds("u1") EXCEPT !.Username = ""],
      [Creds("u1") EXCEPT !.BaseURLOk = FALSE] }

Model(lim, enr) == [valid |-> TRUE, Limit |-> lim, Enrich |-> enr, Priority |-> <<>>]

ModelSet ==
    { Model(Nil, FALSE), Model(<<0>>, TRUE), Model(<<5>>, FALSE),
      Model(<<30>>, TRUE), Model(<<55>>, FALSE),
      [Model(Nil, FALSE) EXCEPT !.valid = FALSE] }

(* What the host does in the runs explored: one goroutine at a time with  *)
(* every configuration and query, or two concurrent goroutines serving     *)
(* small queries of one instance during one clock advance at most.  A host *)
(* names the goroutines it runs, the settings and queries it passes, the   *)
(* sizes of its requests, the priorities of the records its server holds   *)
(* and the clock advances its runs last.                                   *)
SequentialHost ==
    [active |-> {"q1"}, settings |-> SettingsSet, models |-> ModelSet, batch |-> {1},
     pagePrios |-> {{<<"P", "1">>}},
     ticks |-> MaxTicks]
ConcurrentHost ==
    [active |-> Procs,
     settings |-> {Creds("u1"), [Creds("u1") EXCEPT !.Password = ""]},
     models |-> {Model(<<5>>, TRUE)}, batch |-> {1}, pagePrios |-> {{<<"P", "1">>}},
     ticks |-> 1]

(* A host that sends requests of several queries for one instance *)
BatchHost ==
    [active |-> {"q1"},
     settings |-> {Creds("u1"), [Creds("u1") EXCEPT !.Username = ""]},
     models |-> {Model(<<5>>, TRUE), [Model(Nil, FALSE) EXCEPT !.valid = FALSE]},
     batch |-> 1..MaxQueries, pagePrios |-> {{<<"P", "1">>}},
     ticks |-> MaxTicks]

(* req.Queries of the requests a host sends: the k-th query has RefID k *)
RefIDs == 1..MaxQueries
Requests(h) ==
    UNION { { [k \in 1..n |-> [ref |-> k, model |-> f[k]]] : f \in [1..n -> h.models] } :
            n \in h.batch }
NoReq == [all |-> <<>>, queue |-> <<>>, cur |-> 0]

(* A host that sends one query at a time and may cancel the request *)
CancelHost ==
    [active |-> {"q1"},
     settings |-> {Creds("u1"), [Creds("u1") EXCEPT !.Username = ""],
                   [Creds("u1") EXCEPT !.Password = ""]},
     models |-> {Model(Nil, TRUE), Model(<<30>>, FALSE)}, batch |-> {1},
     pagePrios |-> {{<<"P", "1">>}},
     ticks |-> MaxTicks]

(* A host whose queries select priorities, with a server whose pages hold  *)
(* records of priority P1 only or of P1 and P3                             *)
FilterHost ==
    [active |-> {"q1"},
     settings |-> {Creds("u1"), [Creds("u1") EXCEPT !.Username = ""]},
     models |-> { [Model(<<30>>, TRUE) EXCEPT
                      !.Priority = << <<"p", "1">>, <<" ", "P", "2">>, <<"X", "9">> >>],
                  [Model(<<5>>, FALSE) EXCEPT !.Priority = << <<"X", "9">> >>] },
     batch |-> {1},
     pagePrios |-> {{<<"P", "1">>}, {<<"P", "1">>, <<"P", "3">>}}, ticks |-> MaxTicks]

(* A host that sends one query at a time, of one or several pages *)
LiveHost ==
    [active |-> {"q1"},
     settings |-> {Creds("u1"), [Creds("u1") EXCEPT !.APIToken = <<"o">>],
                   [Creds("u1") EXCEPT !.Username = ""]},
     models |-> {Model(Nil, FALSE), Model(<<30>>, TRUE), Model(<<55>>, FALSE)},
     batch |-> {1}, pagePrios |-> {{<<"P", "1">>}},
     ticks |-> MaxTicks]

NoCtx == [cancelled |-> FALSE, at |-> "none"]

(* net/http with a request made by NewRequestWithContext: once ctx is      *)
(* cancelled, client.Do returns the error of the context (token.go 66-75,  *)
(* datasource.go 235-242, 257-262, 438-446)                                *)
Do(p, responses) ==
    IF ctx[p].cancelled THEN {r \in responses : r.transportErr} ELSE responses

(* Responses of the list endpoint to a request for lim records; the        *)
(* records of a page have the priorities of one of the sets of pp          *)
ListResponses(lim, pp) ==
    {[transportErr |-> TRUE, status |-> 0, count |-> 0, prios |-> {}]}
    \cup {[transportErr |-> FALSE, status |-> st, count |-> 0, prios |-> {}] :
              st \in {401, 403, 500}}
    \cup {[transportErr |-> FALSE, status |-> 200, count |-> n,
           prios |-> IF n > 0 THEN ps ELSE {}] :
              n \in {0, lim - 1, lim, lim + OverDeliver}, ps \in pp}

(* Responses of the site endpoint: a transport error, a status, a body     *)
(* that decodes or not, and whether the decoded list names the sites of    *)
(* the records                                                             *)
SiteResponses ==
    { [transportErr |-> TRUE, status |-> 0, decodes |-> FALSE, names |-> FALSE],
      [transportErr |-> FALSE, status |-> 500, decodes |-> TRUE, names |-> TRUE],
      [transportErr |-> FALSE, status |-> 200, decodes |-> FALSE, names |-> FALSE],
      [transportErr |-> FALSE, status |-> 200, decodes |-> TRUE, names |-> FALSE],
      [transportErr |-> FALSE, status |-> 200, decodes |-> TRUE, names |-> TRUE] }

(* datasource.go 443-464: what getSiteNamesByID returns for the response r *)
SiteOutcome(r) ==
    IF r.transportErr THEN [err |-> "site request failed", named |-> FALSE]
    ELSE IF r.status < 200 \/ r.status >= 300
         THEN [err |-> "site endpoint returned", named |-> FALSE]
    ELSE IF ~r.decodes
         THEN [err |-> "failed to decode site response", named |-> FALSE]
    ELSE [err |-> "", named |-> r.names]

(* The error of the lookup put on the query *)
EnrichError_Surfaced(fetchErr, siteErr) ==
    IF siteErr # "" THEN <<siteErr>> ELSE fetchErr

(* datasource.go 309-315: the error of the lookup is logged, dr.Error stays *)
EnrichError(fetchErr, siteErr) == fetchErr

(* No notice at all *)
NoDataNotice_Never(rows) == FALSE

(* datasource.go 402: the frame gets the notice when len(issueRows) == 0 *)
NoDataNotice(rows) == rows = 0

NoResult ==
    [set |-> FALSE, Error |-> <<>>, frames |-> 0, rows |-> 0, notice |-> FALSE,
     site |-> "id", prios |-> {}]
NoHist == [shortPage |-> FALSE, retryFailed |-> FALSE, iters |-> 0, siteErr |-> ""]

LockRegion == {"gt_lock", "gt_check", "set_lock", "set_store"}

---------------------------------------------------------------------------
InitWith(h) ==
    /\ host = h
    /\ now = 0
    /\ ticks = 0
    /\ cache = [u \in Instances |-> NoEntry]
    /\ mu = Free
    /\ pc = [p \in Procs |-> "idle"]
    /\ settings = [p \in Procs |-> Creds("u1")]
    /\ qm = [p \in Procs |-> Model(Nil, FALSE)]
    /\ hardLimit = [p \in Procs |-> 0]
    /\ allIssues = [p \in Procs |-> 0]
    /\ issuePrio = [p \in Procs |-> {}]
    /\ offset = [p \in Procs |-> 0]
    /\ reqURL = [p \in Procs |-> <<0, 0>>]
    /\ token = [p \in Procs |-> <<>>]
    /\ drError = [p \in Procs |-> <<>>]
    /\ ret = [p \in Procs |-> "none"]
    /\ pend = [p \in Procs |-> NoCall]
    /\ result = [p \in Procs |-> NoResult]
    /\ callLogins = [p \in Procs |-> 0]
    /\ wire = [p \in Procs |-> <<>>]
    /\ hist = [p \in Procs |-> NoHist]
    /\ req = [p \in Procs |-> NoReq]
    /\ resp = [p \in Procs |-> [r \in RefIDs |-> NoResult]]
    /\ ctx = [p \in Procs |-> NoCtx]

(* Values a priority list is made of *)
PriorityValues ==
    { <<"P", "1">>, <<"p", "2">>, <<" ", "p", "3", " ">>, <<"P", "4">>,
      <<"X", "9">>, <<"P", "5">>, <<"P">>, <<" ">>, <<>> }

PriorityLists == UNION { [1..n -> PriorityValues] : n \in 0..MaxPriorities }

(* Values a status list is made of *)
StatusValues ==
    { <<"A", "C", "T", "I", "V", "E">>,
      <<"r", "e", "s", "o", "l", "v", "e", "d">>,
      <<" ", "I", "g", "n", "o", "r", "e", "d", " ">>,
      <<"o", "p", "e", "n">>, <<"A", "C", "T", "I", "V">>, <<>> }

StatusLists == UNION { [1..n -> StatusValues] : n \in 0..MaxStatuses }

(* The query document of the editor: the filters, the AI-driven flag and   *)
(* the legacy severity field; and the time range of the request            *)
ZeroTime == [isZero |-> TRUE, unixMilli |-> 0]
NoDoc ==
    [priority |-> <<>>, status |-> <<>>, device |-> <<>>, mac |-> <<>>,
     site |-> <<>>, siteType |-> <<>>, aiDriven |-> <<>>, severity |-> <<>>,
     to |-> ZeroTime]

ScalarValues == { <<>>, <<" ">>, <<" ", "s", "1", " ">> }
AIDrivenValues ==
    { <<>>, <<"t", "r", "u", "e">>, <<"Y", "E", "S">>, <<" ", "1", " ">>,
      <<"f", "a", "l", "s", "e">>, <<"N", "o">>, <<"0">>, <<"m", "a", "y", "b", "e">> }
SeverityValues == { <<>>, <<"P", "3">>, <<" ", "p", "2", " ">>, <<"X", "9">> }
PageSizes == {0 - 5, 0, 1, 25, 50, 51, 1000, 1001}
Offsets == {0 - 1, 0, 1, 26}
Times == {0 - 1, 0, 1, 1700}

(* The calls of buildAssuranceParamsFromQuery: the filters vary, or the    *)
(* flag and the legacy field, or the paging, or the time window            *)
AssuranceArg(doc, st, et, ps, off) ==
    [doc |-> doc, startTime |-> st, endTime |-> et, pageSize |-> ps, offset |-> off]
FilterDocs ==
    { [NoDoc EXCEPT !.site = a, !.device = b, !.mac = c, !.priority = ps, !.status = ss] :
        a \in ScalarValues, b \in ScalarValues, c \in ScalarValues,
        ps \in {<<>>, << <<"X", "9">> >>, << <<" ", "p", "3", " ">> >>},
        ss \in {<<>>, << <<"o", "p", "e", "n">> >>, << <<"A", "C", "T", "I", "V", "E">> >>} }
FlagDocs ==
    { [NoDoc EXCEPT !.aiDriven = a, !.severity = sv, !.priority = ps] :
        a \in AIDrivenValues, sv \in SeverityValues,
        ps \in {<<>>, << <<"X", "9">> >>, << <<"P", "1">> >>} }
AssuranceArgs ==
    { AssuranceArg(d, 0, 0, PageSize, 1) : d \in FilterDocs \cup FlagDocs }
    \cup { AssuranceArg(NoDoc, 0, 0, ps, off) : ps \in PageSizes, off \in Offsets }
    \cup { AssuranceArg(NoDoc, st, et, PageSize, 1) : st \in Times, et \in Times }

(* The calls of buildSiteHealthParamsFromQuery *)
SiteHealthArgs ==
    { [doc |-> [NoDoc EXCEPT !.siteType = a, !.to = t], pageSize |-> ps, offset |-> off] :
        a \in ScalarValues, t \in {ZeroTime, [isZero |-> FALSE, unixMilli |-> 1700]},
        ps \in PageSizes, off \in Offsets }

(* The base URLs: a scheme and a host, a path that is empty or begins with *)
(* "/", and then nothing, or "?" alone, or a query; and then a fragment or *)
(* none                                                                    *)
PathPieces == {"/", "dna", "proxy"}
Paths ==
    {<<>>} \cup UNION { { <<"/">> \o t : t \in [1..n -> PathPieces] } : n \in 0..(MaxPathLen - 1) }
BaseURLs ==
    { <<"https://gw">> \o path \o q \o f :
        path \in Paths,
        q \in {<<>>, <<"?">>, <<"?", "x=1">>},
        f \in {<<>>, <<"#", "top">>} }

(* The names a record may give to each of its values: the primary name,    *)
(* then the legacy ones                                                    *)
FieldNames ==
    << <<"timestamp", "firstOccurredTime", "startTime">>,
       <<"issueId", "id", "instanceId">>,
       <<"name", "title", "issueTitle">>,
       <<"priority", "severity">>,
       <<"issueStatus", "status">>,
       <<"category", "type">>,
       <<"deviceId", "deviceIp", "device">>,
       <<"macAddress", "clientMac">>,
       <<"description", "details", "issueDescription">> >>
Fields == 1..Len(FieldNames)

(* The values of a record: a time and texts, but for at most MaxOdd fields *)
(* that hold the value odd                                                 *)
OddValues == { Null, Str(<<>>), Str(<<" ">>), Num(0), Frac(0, 5) }
UsualValue(f, tag) == IF f = 1 THEN Num(1700) ELSE Str(<<tag, Digits[f + 1]>>)
ValueVectors(tag) ==
    { [f \in Fields |-> IF f \in E THEN odd ELSE UsualValue(f, tag)] :
        E \in { X \in SUBSET Fields : Cardinality(X) <= MaxOdd }, odd \in OddValues }

(* The record that holds the value of each field under the name picked,    *)
(* and a site and a rule                                                   *)
SharedKeys ==
    ("siteId" :> Str(<<"s", "1">>)) @@ ("ruleId" :> Str(<<"r", "1">>))
Named(vals, pick) ==
    [k \in { FieldNames[f][pick[f]] : f \in Fields } |->
        vals[CHOOSE f \in Fields : FieldNames[f][pick[f]] = k]] @@ SharedKeys
PrimaryPick == [f \in Fields |-> 1]
LegacyPicks ==
    { [f \in Fields |-> IF Len(FieldNames[f]) = 2 THEN 2 ELSE 2 + ((a + b * f) % 2)] :
        a \in 0..1, b \in 0..1 }

(* The answers of the list endpoint with two records: one with primary     *)
(* names and one with legacy names for the same values, or with legacy     *)
(* names for other values beside the primary ones                          *)
OtherValues == [f \in Fields |-> UsualValue(f, "w")]
SecondRecords(v) ==
    { Named(v, pk) : pk \in LegacyPicks }
    \cup { Named(OtherValues, pk) @@ Named(v, PrimaryPick) : pk \in LegacyPicks }
RowArgs ==
    UNION { { [issues |-> <<Named(v, PrimaryPick), second>>, names |-> nm, from |-> 5] :
                second \in SecondRecords(v),
                nm \in { {}, { << <<"s", "1">>, <<"H", "Q">> >> } } } :
            v \in ValueVectors("v") }
    \cup { [issues |-> << (("siteId" :> sv) @@ ("ruleId" :> rv))
                            @@ Named(OtherValues, PrimaryPick),
                          [k \in { FieldNames[f][1] : f \in Fields } |->
                              Named(OtherValues, PrimaryPick)[k]] >>,
            names |-> nm, from |-> 5] :
              sv \in OddValues \cup {Str(<<"s", "1">>)},
              rv \in OddValues \cup {Str(<<"r", "1">>)},
              nm \in { {}, { << <<"s", "1">>, <<"H", "Q">> >> } } }

(* The queries whose records carry a siteId or none, with the answer of    *)
(* the site endpoint: getToken succeeds or not, the status, and the sites  *)
(* of the response                                                         *)
SiteArgs ==
    LET rec(v) == ("issueId" :> Str(<<"i">>)) @@ ("siteId" :> v)
        recs == { rec(v) : v \in { Null, Str(<<>>), Str(<<" ">>), Num(7),
                                    Str(<<"s", "1">>), Str(<<"s", "2">>) } }
                \cup { "issueId" :> Str(<<"i">>) }
        sites == { [ID |-> <<"s", "1">>, Name |-> <<"H", "Q">>],
                   [ID |-> <<"s", "1">>, Name |-> <<"B">>],
                   [ID |-> <<>>, Name |-> <<"X">>],
                   [ID |-> <<"s", "2">>, Name |-> <<>>] }
    IN  { [enrich |-> e, issues |-> is,
           site |-> [tokenOk |-> o[1], status |-> o[2], response |-> rs]] :
            e \in BOOLEAN,
            is \in {<<>>} \cup [1..1 -> recs] \cup [1..2 -> recs]
                   \cup { <<rec(Str(<<"s", "1">>)), rec(Str(<<"s", "2">>)),
                            rec(Str(<<"s", "1">>))>> },
            o \in { <<TRUE, 200>>, <<TRUE, 500>>, <<FALSE, 200>> },
            rs \in {<<>>} \cup [1..2 -> sites] }

(* The site-health queries with their response: up to two sites, each     *)
(* with its names and the metric m2, and with the metric m1 as a number, a *)
(* string, null, an object, or without it                                  *)
HealthArgs ==
    LET named(n) == ("siteName" :> Str(<<n>>)) @@ ("parentSiteName" :> Str(<<"P">>))
                    @@ ("m2" :> Num(1))
        sites == { named(n) : n \in {"A", "B"} }
                 \cup { ("m1" :> v) @@ named(n) :
                          n \in {"A", "B"},
                          v \in { Num(3), Frac(2, 5), Str(<<"x">>), Null,
                                   [Null EXCEPT !.t = "object"] } }
    IN  { [response |-> rs, Metrics |-> ms, ParentSiteName |-> pn, SiteName |-> sn] :
            rs \in {<<>>} \cup [1..1 -> sites] \cup [1..2 -> sites],
            ms \in { <<>>, <<"m1">>, <<"m2", "m1">> },
            pn \in { <<>>, <<"P">>, <<"Q">> }, sn \in { <<>>, <<"A">> } }

(* The login responses received at time t by a getToken call whose set or  *)
(* setWithExpiry reads the clock at ts: the status and the three places of *)
(* the token vary, or the token is in the header or in the body and the    *)
(* expiry headers and three JSON fields vary, or the token is in the body  *)
(* and the JSON fields vary                                                *)
LoginArgs ==
    LET t == 1000
        toks(c) == { <<>>, <<" ">>, <<" ", c, " ">> }
        places == { [NoResp EXCEPT !.xAuthToken = h, !.bodyToken = b] :
                      h \in {<<>>, <<"a">>}, b \in {<<>>, <<"b">>} } \ {NoResp}
    IN  { [r |-> [NoResp EXCEPT !.status = st, !.xAuthToken = h, !.bodyToken = b,
                                !.bodyToken2 = c, !.transportErr = te],
           t |-> t, ts |-> t] :
            st \in {199, 200, 204, 299, 300, 401}, h \in toks("a"), b \in toks("b"),
            c \in toks("c"), te \in BOOLEAN }
        \cup { [r |-> [pl EXCEPT !.xAuthTokenExpiresIn = a, !.xTokenExpiresIn = b,
                                 !.xAuthTokenExpiry = c, !.xTokenExpiry = d,
                                 !.maxAge = e, !.expires = f,
                                 !.expiresIn = g, !.expiresAt = h],
               t |-> t, ts |-> ts] :
                pl \in places, ts \in {t, t + 1},
                a \in {0, 60, 61, 120}, b \in {0, 90}, c \in {0, t, t + 500},
                d \in {0, t + 600}, e \in {0 - 1, 0, 150}, f \in {0, t, t + 700},
                g \in {0, 3600}, h \in {0, t + 60, t + 800} }
        \cup { [r |-> [NoResp EXCEPT !.bodyToken2 = <<"z">>,
                                     !.expiresIn = a, !.expires_in = b, !.expiresAt = c,
                                     !.expiry = d, !.expiration = e, !.expireTime = f],
               t |-> t, ts |-> ts] :
                ts \in {t, t + 1},
                a \in {0, 30}, b \in {0, 40}, c \in {0, t + 900}, d \in {0, t + 61},
                e \in {0, 50, t + 950}, f \in {0, t + 60, t + 990} }

NoPCall == [fn |-> "none", arg |-> <<>>, made |-> FALSE,
            out |-> [set |-> FALSE, value |-> <<>>]]

Init == InitWith(SequentialHost) /\ pcall = NoPCall
InitConc == InitWith(ConcurrentHost) /\ pcall = NoPCall
InitBatch == InitWith(BatchHost) /\ pcall = NoPCall
InitCancel == InitWith(CancelHost) /\ pcall = NoPCall
InitFilter == InitWith(FilterHost) /\ pcall = NoPCall
InitLive == InitWith(LiveHost) /\ pcall = NoPCall

(* The calls of the functions of params.go and model.go that are about to  *)
(* be made: the function and its argument                                  *)
PCall(fn, arg) == [NoPCall EXCEPT !.fn = fn, !.arg = arg]
PCalls ==
    { PCall("priority", ps) : ps \in PriorityLists }
    \cup { PCall("status", ss) : ss \in StatusLists }
    \cup { PCall("normalizePriority", <<a, b>>) : a \in PriorityValues, b \in PriorityValues }
    \cup { PCall("normalizeIssueStatus", <<a, b>>) : a \in StatusValues, b \in StatusValues }
    \cup { PCall("assurance", a) : a \in AssuranceArgs }
    \cup { PCall("IssuesURL", b) : b \in BaseURLs }
    \cup { PCall("rows", a) : a \in RowArgs }
    \cup { PCall("login", a) : a \in LoginArgs }
    \cup { PCall("sites", a) : a \in SiteArgs }
    \cup { PCall("health", a) : a \in HealthArgs }
    \cup { PCall("siteHealth", a) : a \in SiteHealthArgs }

(* One of the calls is about to be made *)
InitParams ==
    /\ InitWith(SequentialHost)
    /\ pcall \in PCalls

(* datasource.go 95-99 and 180-185: the entry of a query that cannot be    *)
(* run holds the error and no frame                                        *)
Abort(p, err) ==
    /\ result' = [result EXCEPT ![p] = [NoResult EXCEPT !.set = TRUE, !.Error = err]]
    /\ pc' = [pc EXCEPT ![p] = "done"]

(* datasource.go 318-414: the steps after the enrichment: a row is built   *)
(* from every accumulated record, its site column being the name when the  *)
(* lookup gave one (named) and the site id otherwise; the one frame gets   *)
(* the notice when there is no row, and the response entry is stored.      *)
Finish(p, err, named) ==
    /\ result' = [result EXCEPT ![p] =
                    [set |-> TRUE, Error |-> err, frames |-> 1, rows |-> allIssues[p],
                     notice |-> NoDataNotice(allIssues[p]),
                     site |-> IF named THEN "name" ELSE "id",
                     prios |-> issuePrio[p]]]
    /\ pc' = [pc EXCEPT ![p] = "done"]

(* The return of getToken to its call site: datasource.go 228-232,         *)
(* 251-255 and 433-436.                                                    *)
Return(p, tok, err, h) ==
    /\ token' = [token EXCEPT ![p] = tok]
    /\ IF ret[p] = "site"
       THEN /\ IF err = ""
               THEN /\ pc' = [pc EXCEPT ![p] = "site_get"]
                    /\ UNCHANGED result
               ELSE Finish(p, EnrichError(drError[p], "token for site lookup"), FALSE)
            /\ hist' = [hist EXCEPT ![p] =
                  [h EXCEPT !.siteErr = IF err = "" THEN "" ELSE "token for site lookup"]]
            /\ UNCHANGED drError
       ELSE IF err = ""
       THEN /\ pc' = [pc EXCEPT ![p] =
                        IF ret[p] = "page" THEN "page_get" ELSE "retry_get"]
            /\ hist' = [hist EXCEPT ![p] = h]
            /\ UNCHANGED <<drError, result>>
       ELSE /\ pc' = [pc EXCEPT ![p] = "enrich"]
            /\ drError' = [drError EXCEPT ![p] =
                  <<IF ret[p] = "page" THEN "token" ELSE "token refresh", err>>]
            /\ hist' = [hist EXCEPT ![p] =
                  [h EXCEPT !.retryFailed = @ \/ ret[p] = "retry"]]
            /\ UNCHANGED result

(* datasource.go 80-89: QueryData is called with the settings of an       *)
(* instance and a list of queries; the response is empty                   *)
Request(p) ==
    /\ pc[p] = "idle"
    /\ p \in host.active
    /\ \E s \in host.settings, qs \in Requests(host) :
         /\ settings' = [settings EXCEPT ![p] = s]
         /\ req' = [req EXCEPT ![p] = [all |-> qs, queue |-> qs, cur |-> 0]]
    /\ pc' = [pc EXCEPT ![p] = "query"]
    /\ UNCHANGED <<host, pcall, ctx, resp, now, ticks, cache, mu, qm, hardLimit, allIssues, issuePrio, offset,
                   reqURL, token, drError, ret, pend, result, callLogins, wire, hist>>

(* datasource.go 90-99, 180-210: the next query of the request starts *)
StartQuery(p) ==
    /\ pc[p] = "query"
    /\ req[p].queue # <<>>
    /\ LET q == Head(req[p].queue)
           m == q.model
           s == settings[p]
           hl == IF m.Limit # Nil /\ m.Limit[1] > 0 THEN m.Limit[1]
                 ELSE DefaultHardLimit
       IN  /\ req' = [req EXCEPT ![p].queue = Tail(@), ![p].cur = q.ref]
           /\ qm' = [qm EXCEPT ![p] = m]
           /\ IF ~m.valid
              THEN /\ drError' = [drError EXCEPT ![p] = <<"invalid query model">>]
                   /\ Abort(p, <<"invalid query model">>)
                   /\ UNCHANGED <<hardLimit, allIssues, issuePrio, offset>>
              ELSE IF ~s.BaseURLOk
              THEN /\ drError' = [drError EXCEPT ![p] = <<"parse base url">>]
                   /\ Abort(p, <<"parse base url">>)
                   /\ UNCHANGED <<hardLimit, allIssues, issuePrio, offset>>
              ELSE /\ hardLimit' = [hardLimit EXCEPT ![p] = hl]
                   /\ allIssues' = [allIssues EXCEPT ![p] = 0]
                   /\ issuePrio' = [issuePrio EXCEPT ![p] = {}]
                   /\ offset' = [offset EXCEPT ![p] = 0]
                   /\ pc' = [pc EXCEPT ![p] = "loop"]
                   /\ UNCHANGED <<drError, result>>
    /\ UNCHANGED <<host, pcall, ctx, resp, now, ticks, cache, mu, settings, reqURL, token, ret, pend,
                   callLogins, wire, hist>>

(* A loop that goes on whatever has been accumulated *)
LoopCond_Always(p) == TRUE

(* datasource.go 212: for int64(len(allIssues)) < hardLimit *)
LoopCond(p) == allIssues[p] < hardLimit[p]

(* datasource.go 212-225: the loop test and, when it passes, the paging    *)
(* parameters of the next request, up to the call of getToken              *)
LoopTest(p) ==
    /\ pc[p] = "loop"
    /\ wire' = [wire EXCEPT ![p] = <<>>]
    /\ IF LoopCond(p)
       THEN LET remaining == hardLimit[p] - allIssues[p]
                limitForThisPage == IF remaining < PageSize THEN remaining ELSE PageSize
            IN  /\ reqURL' = [reqURL EXCEPT ![p] =
                                 PagingParams(limitForThisPage, offset[p] + 1)]
                /\ ret' = [ret EXCEPT ![p] = "page"]
                /\ pc' = [pc EXCEPT ![p] = "getToken"]
                /\ hist' = [hist EXCEPT ![p].iters = @ + 1]
       ELSE /\ pc' = [pc EXCEPT ![p] = "enrich"]
            /\ ret' = [ret EXCEPT ![p] = "none"]
            /\ UNCHANGED <<reqURL, hist>>
    /\ token' = [token EXCEPT ![p] = <<>>]
    /\ UNCHANGED <<host, pcall, ctx, req, resp, now, ticks, cache, mu, settings, qm, hardLimit, allIssues, issuePrio,
                   offset, drError, pend, result, callLogins>>

(* token.go 39-45: the override check *)
GetTokenBegin(p) ==
    /\ pc[p] = "getToken"
    /\ callLogins' = [callLogins EXCEPT ![p] = 0]
    /\ LET t == TrimSpace(settings[p].APIToken)
       IN  IF t # <<>>
           THEN Return(p, t, "", hist[p])
           ELSE /\ pc' = [pc EXCEPT ![p] = "gt_lock"]
                /\ UNCHANGED <<token, drError, result, hist>>
    /\ UNCHANGED <<host, pcall, ctx, req, resp, now, ticks, cache, mu, settings, qm, hardLimit, allIssues, issuePrio,
                   offset, reqURL, ret, pend, wire>>

(* token.go 48: tm.mu.Lock() *)
CacheLock(p) ==
    /\ pc[p] = "gt_lock"
    /\ mu = Free
    /\ mu' = p
    /\ pc' = [pc EXCEPT ![p] = "gt_check"]
    /\ UNCHANGED <<host, pcall, ctx, req, resp, now, ticks, cache, settings, qm, hardLimit, allIssues, issuePrio, offset,
                   reqURL, token, drError, ret, pend, result, callLogins, wire, hist>>

(* The cache check leaving the mutex locked when the entry is not usable *)
CacheCheck_KeepLock(p) ==
    /\ pc[p] = "gt_check"
    /\ LET e == cache[settings[p].UID]
       IN  IF Usable(e, now)
           THEN /\ mu' = Free
                /\ Return(p, e.Token, "", hist[p])
           ELSE /\ mu' = mu
                /\ pc' = [pc EXCEPT ![p] = "gt_login"]
                /\ UNCHANGED <<token, drError, result, hist>>
    /\ UNCHANGED <<host, pcall, ctx, req, resp, now, ticks, cache, settings, qm, hardLimit, allIssues, issuePrio, offset,
                   reqURL, ret, pend, callLogins, wire>>

(* token.go 49-54: the cache check and tm.mu.Unlock() *)
CacheCheck(p) ==
    /\ pc[p] = "gt_check"
    /\ mu' = Free
    /\ LET e == cache[settings[p].UID]
       IN  IF Usable(e, now)
           THEN Return(p, e.Token, "", hist[p])
           ELSE /\ pc' = [pc EXCEPT ![p] = "gt_login"]
                /\ UNCHANGED <<token, drError, result, hist>>
    /\ UNCHANGED <<host, pcall, ctx, req, resp, now, ticks, cache, settings, qm, hardLimit, allIssues, issuePrio, offset,
                   reqURL, ret, pend, callLogins, wire>>

(* A password taken for a pair of credentials *)
credsMissing_PasswordOnly(s) == s.Password = ""

(* token.go 57: s.Username == "" || s.Password == "" *)
credsMissing(s) == s.Username = "" \/ s.Password = ""

(* The entry of the instance dropped when the credentials are missing *)
CredsMissing_Clears(p) ==
    /\ pc[p] = "gt_login"
    /\ credsMissing(settings[p])
    /\ cache' = [cache EXCEPT ![settings[p].UID] = NoEntry]
    /\ Return(p, <<>>, "no username/password provided", hist[p])
    /\ UNCHANGED <<host, pcall, ctx, req, resp, now, ticks, mu, settings, qm, hardLimit, allIssues,
                   issuePrio, offset, reqURL, ret, pend, callLogins, wire>>

(* token.go 56-59: no credentials, no request *)
CredsMissing(p) ==
    /\ pc[p] = "gt_login"
    /\ credsMissing(settings[p])
    /\ Return(p, <<>>, "no username/password provided", hist[p])
    /\ UNCHANGED <<host, pcall, ctx, req, resp, now, ticks, cache, mu, settings, qm, hardLimit, allIssues, issuePrio,
                   offset, reqURL, ret, pend, callLogins, wire>>

(* token.go 61-130: the login POST and the handling of its response, up to *)
(* the call of set or setWithExpiry.  TokenURL parses the base URL that    *)
(* IssuesURL has parsed before the loop, so it does not fail here.         *)
LoginExchange(p) ==
    /\ pc[p] = "gt_login"
    /\ ~credsMissing(settings[p])
    /\ callLogins' = [callLogins EXCEPT ![p] = @ + 1]
    /\ \E r \in Do(p, LoginResponses(now)) :
         LET out == LoginOutcome(r, now)
             h == hist[p]
         IN  IF out.err # ""
             THEN /\ Return(p, <<>>, out.err, h)
                  /\ UNCHANGED pend
             ELSE /\ pend' = [pend EXCEPT ![p] = out.call]
                  /\ pc' = [pc EXCEPT ![p] = "set_lock"]
                  /\ hist' = [hist EXCEPT ![p] = h]
                  /\ UNCHANGED <<token, drError, result>>
    /\ UNCHANGED <<host, pcall, ctx, req, resp, now, ticks, cache, mu, settings, qm, hardLimit, allIssues, issuePrio,
                   offset, reqURL, ret, wire>>

(* set and setWithExpiry entering without waiting for the mutex *)
SetLock_NoWait(p) ==
    /\ pc[p] = "set_lock"
    /\ mu' = p
    /\ pc' = [pc EXCEPT ![p] = "set_store"]
    /\ UNCHANGED <<host, pcall, ctx, req, resp, now, ticks, cache, settings, qm, hardLimit, allIssues, issuePrio, offset,
                   reqURL, token, drError, ret, pend, result, callLogins, wire, hist>>

(* token.go 136 and 155: tm.mu.Lock() in set and setWithExpiry *)
SetLock(p) ==
    /\ pc[p] = "set_lock"
    /\ mu = Free
    /\ mu' = p
    /\ pc' = [pc EXCEPT ![p] = "set_store"]
    /\ UNCHANGED <<host, pcall, ctx, req, resp, now, ticks, cache, settings, qm, hardLimit, allIssues, issuePrio, offset,
                   reqURL, token, drError, ret, pend, result, callLogins, wire, hist>>

(* token.go 137-142 and 156-160: the store and the deferred Unlock; then   *)
(* getToken returns the token (87, 91, 119, 125, 130), or, after the       *)
(* invalidation of datasource.go 250, the refresh of line 251 is called.   *)
SetStore(p) ==
    /\ pc[p] = "set_store"
    /\ mu' = Free
    /\ cache' = [cache EXCEPT ![settings[p].UID] =
                    Entry(pend[p].token, StoredExpiry(pend[p], now))]
    /\ pend' = [pend EXCEPT ![p] = NoCall]
    /\ LET h == hist[p]
       IN  IF pend[p].then = "return"
           THEN /\ Return(p, pend[p].token, "", h)
                /\ UNCHANGED ret
           ELSE /\ pc' = [pc EXCEPT ![p] = "getToken"]
                /\ ret' = [ret EXCEPT ![p] = "retry"]
                /\ hist' = [hist EXCEPT ![p] = h]
                /\ UNCHANGED <<token, drError, result>>
    /\ UNCHANGED <<host, pcall, ctx, req, resp, now, ticks, settings, qm, hardLimit, allIssues, issuePrio, offset,
                   reqURL, callLogins, wire>>

(* datasource.go 286: the page of n records is the last one *)
LastPage_Never(n) == FALSE
LastPage(n) == n < PageSize

(* datasource.go 256: the retried request is built from reqURL again *)
RetryURL_Rebuilt(p) == PagingParams(reqURL[p][1], offset[p] + PageSize + 1)
RetryURL(p) == reqURL[p]

(* The offset left where it is after a full page *)
NextOffset_Stay(off) == off

(* datasource.go 290: offset += pageSize *)
NextOffset(off) == off + PageSize

(* datasource.go 267-291: the status check, the decoding of the page and   *)
(* the accumulation of its records                                         *)
HandlePage(p, r, h) ==
    LET h2 == [h EXCEPT !.shortPage = @ \/ r.count < reqURL[p][1]]
    IN  IF r.status < 200 \/ r.status >= 300
        THEN /\ drError' = [drError EXCEPT ![p] = <<"issues endpoint returned">>]
             /\ pc' = [pc EXCEPT ![p] = "enrich"]
             /\ hist' = [hist EXCEPT ![p] = h]
             /\ UNCHANGED <<allIssues, issuePrio, offset>>
        ELSE IF r.count = 0
        THEN /\ pc' = [pc EXCEPT ![p] = "enrich"]
             /\ hist' = [hist EXCEPT ![p] = h2]
             /\ UNCHANGED <<drError, allIssues, issuePrio, offset>>
        ELSE IF LastPage(r.count)
        THEN /\ allIssues' = [allIssues EXCEPT ![p] = @ + r.count]
             /\ issuePrio' = [issuePrio EXCEPT ![p] = @ \cup r.prios]
             /\ pc' = [pc EXCEPT ![p] = "enrich"]
             /\ hist' = [hist EXCEPT ![p] = h2]
             /\ UNCHANGED <<drError, offset>>
        ELSE /\ allIssues' = [allIssues EXCEPT ![p] = @ + r.count]
             /\ issuePrio' = [issuePrio EXCEPT ![p] = @ \cup r.prios]
             /\ offset' = [offset EXCEPT ![p] = NextOffset(@)]
             /\ pc' = [pc EXCEPT ![p] = "loop"]
             /\ hist' = [hist EXCEPT ![p] = h2]
             /\ UNCHANGED drError

(* datasource.go 234-250: the list GET; a 401/403 response leads to the    *)
(* invalidation d.tm.set(inst.UID, "")                                     *)
PageGet(p) ==
    /\ pc[p] = "page_get"
    /\ wire' = [wire EXCEPT ![p] = Append(@, reqURL[p])]
    /\ \E r \in Do(p, ListResponses(reqURL[p][1], host.pagePrios)) :
         IF r.transportErr
         THEN /\ drError' = [drError EXCEPT ![p] = <<"issues request failed">>]
              /\ pc' = [pc EXCEPT ![p] = "enrich"]
              /\ UNCHANGED <<allIssues, issuePrio, offset, pend, hist>>
         ELSE IF r.status = 401 \/ r.status = 403
         THEN /\ pend' = [pend EXCEPT ![p] = SetCall(<<>>, "refresh")]
              /\ pc' = [pc EXCEPT ![p] = "set_lock"]
              /\ UNCHANGED <<drError, allIssues, issuePrio, offset, hist>>
         ELSE /\ HandlePage(p, r, hist[p])
              /\ UNCHANGED pend
    /\ UNCHANGED <<host, pcall, ctx, req, resp, now, ticks, cache, mu, settings, qm, hardLimit, reqURL, token,
                   ret, result, callLogins>>

(* A retry loop: a 401/403 answer to the retried GET is handled like the  *)
(* first one                                                               *)
RetryGet_Again(p) ==
    /\ pc[p] = "retry_get"
    /\ wire' = [wire EXCEPT ![p] = Append(@, reqURL[p])]
    /\ \E r \in Do(p, ListResponses(reqURL[p][1], host.pagePrios)) :
         IF r.transportErr
         THEN /\ drError' = [drError EXCEPT ![p] = <<"issues request retry failed">>]
              /\ pc' = [pc EXCEPT ![p] = "enrich"]
              /\ hist' = [hist EXCEPT ![p].retryFailed = TRUE]
              /\ UNCHANGED <<allIssues, issuePrio, offset, pend>>
         ELSE IF r.status = 401 \/ r.status = 403
         THEN /\ pend' = [pend EXCEPT ![p] = SetCall(<<>>, "refresh")]
              /\ pc' = [pc EXCEPT ![p] = "set_lock"]
              /\ hist' = [hist EXCEPT ![p].retryFailed = TRUE]
              /\ UNCHANGED <<drError, allIssues, issuePrio, offset>>
         ELSE /\ HandlePage(p, r, [hist[p] EXCEPT !.retryFailed =
                                     r.status < 200 \/ r.status >= 300])
              /\ UNCHANGED pend
    /\ UNCHANGED <<host, pcall, ctx, req, resp, now, ticks, cache, mu, settings, qm, hardLimit, reqURL, token,
                   ret, result, callLogins>>

(* datasource.go 256-291: the one retried GET and the handling of its      *)
(* response                                                                *)
RetryGet(p) ==
    /\ pc[p] = "retry_get"
    /\ wire' = [wire EXCEPT ![p] = Append(@, RetryURL(p))]
    /\ \E r \in Do(p, ListResponses(reqURL[p][1], host.pagePrios)) :
         IF r.transportErr
         THEN /\ drError' = [drError EXCEPT ![p] = <<"issues request retry failed">>]
              /\ pc' = [pc EXCEPT ![p] = "enrich"]
              /\ hist' = [hist EXCEPT ![p].retryFailed = TRUE]
              /\ UNCHANGED <<allIssues, issuePrio, offset>>
         ELSE HandlePage(p, r, [hist[p] EXCEPT !.retryFailed =
                                   r.status < 200 \/ r.status >= 300])
    /\ UNCHANGED <<host, pcall, ctx, req, resp, now, ticks, cache, mu, settings, qm, hardLimit, reqURL, token,
                   ret, pend, result, callLogins>>

(* datasource.go 293-316 and 422-436: whether the site lookup is made; it  *)
(* is when enrichment is on and some record carries a non-empty siteId     *)
(* (the server's choice).  Without a lookup the response entry is built.   *)
(* The locals of the loop body are out of scope here.                      *)
Enrich(p) ==
    /\ pc[p] = "enrich"
    /\ \E hasSiteIDs \in BOOLEAN :
         IF qm[p].Enrich /\ allIssues[p] > 0 /\ hasSiteIDs
         THEN /\ ret' = [ret EXCEPT ![p] = "site"]
              /\ pc' = [pc EXCEPT ![p] = "getToken"]
              /\ UNCHANGED result
         ELSE /\ Finish(p, drError[p], FALSE)
              /\ UNCHANGED ret
    /\ offset' = [offset EXCEPT ![p] = 0]
    /\ reqURL' = [reqURL EXCEPT ![p] = <<0, 0>>]
    /\ token' = [token EXCEPT ![p] = <<>>]
    /\ wire' = [wire EXCEPT ![p] = <<>>]
    /\ callLogins' = [callLogins EXCEPT ![p] = 0]
    /\ UNCHANGED <<host, pcall, ctx, req, resp, now, ticks, cache, mu, settings, qm, hardLimit, allIssues, issuePrio,
                   drError, pend, hist>>

(* datasource.go 438-465 and 309-414: the site GET; whatever it returns,   *)
(* the rows are built and the response entry is stored                     *)
SiteGet(p) ==
    /\ pc[p] = "site_get"
    /\ \E r \in Do(p, SiteResponses) :
         LET out == SiteOutcome(r)
         IN  /\ Finish(p, EnrichError(drError[p], out.err), out.named)
             /\ hist' = [hist EXCEPT ![p].siteErr = out.err]
    /\ UNCHANGED <<host, pcall, ctx, req, resp, now, ticks, cache, mu, settings, qm, hardLimit, allIssues, issuePrio,
                   offset, reqURL, token, drError, ret, pend, callLogins, wire>>

(* The locals of the loop body of a query, as they are before the query *)
ResetLocals(p) ==
    /\ qm' = [qm EXCEPT ![p] = Model(Nil, FALSE)]
    /\ hardLimit' = [hardLimit EXCEPT ![p] = 0]
    /\ allIssues' = [allIssues EXCEPT ![p] = 0]
    /\ issuePrio' = [issuePrio EXCEPT ![p] = {}]
    /\ offset' = [offset EXCEPT ![p] = 0]
    /\ reqURL' = [reqURL EXCEPT ![p] = <<0, 0>>]
    /\ token' = [token EXCEPT ![p] = <<>>]
    /\ drError' = [drError EXCEPT ![p] = <<>>]
    /\ ret' = [ret EXCEPT ![p] = "none"]
    /\ result' = [result EXCEPT ![p] = NoResult]
    /\ callLogins' = [callLogins EXCEPT ![p] = 0]
    /\ wire' = [wire EXCEPT ![p] = <<>>]
    /\ hist' = [hist EXCEPT ![p] = NoHist]

(* A request that is given up at its first failed query *)
Done_StopOnError(p) ==
    /\ pc[p] = "done"
    /\ resp' = [resp EXCEPT ![p][req[p].cur] = result[p]]
    /\ pc' = [pc EXCEPT ![p] =
                IF req[p].queue # <<>> /\ result[p].Error = <<>> THEN "query"
                ELSE "respond"]
    /\ ResetLocals(p)
    /\ UNCHANGED <<host, pcall, ctx, req, now, ticks, cache, mu, settings, pend>>

(* datasource.go 98-99, 183-184, 414-415: resp.Responses[q.RefID] = dr and *)
(* the end of the loop body: the next query, if any, is run                *)
Done(p) ==
    /\ pc[p] = "done"
    /\ resp' = [resp EXCEPT ![p][req[p].cur] = result[p]]
    /\ pc' = [pc EXCEPT ![p] = IF req[p].queue # <<>> THEN "query" ELSE "respond"]
    /\ ResetLocals(p)
    /\ UNCHANGED <<host, pcall, ctx, req, now, ticks, cache, mu, settings, pend>>

(* datasource.go 417: return resp, nil; a later request reuses the slot *)
Respond(p) ==
    /\ pc[p] = "respond"
    /\ pc' = [pc EXCEPT ![p] = "idle"]
    /\ settings' = [settings EXCEPT ![p] = Creds("u1")]
    /\ req' = [req EXCEPT ![p] = NoReq]
    /\ resp' = [resp EXCEPT ![p] = [r \in RefIDs |-> NoResult]]
    /\ ctx' = [ctx EXCEPT ![p] = NoCtx]
    /\ UNCHANGED <<host, pcall, now, ticks, cache, mu, qm, hardLimit, allIssues, issuePrio, offset, reqURL,
                   token, drError, ret, pend, result, callLogins, wire, hist>>

(* Time passes.  A goroutine between a clock read and the Unlock that ends *)
(* its use of the value (token.go 45-54, 141-142, 150-160) runs no         *)
(* blocking operation, so the clock is taken not to advance there.         *)
Tick ==
    /\ ticks < MaxTicks /\ ticks < host.ticks
    /\ \A p \in Procs : pc[p] \notin LockRegion
    /\ now' = now + TickStep
    /\ ticks' = ticks + 1
    /\ UNCHANGED <<host, pcall, ctx, req, resp, cache, mu, pc, settings, qm, hardLimit, allIssues, issuePrio, offset,
                   reqURL, token, drError, ret, pend, result, callLogins, wire, hist>>

(* The caller cancels the request, or its deadline passes, while the       *)
(* query runs                                                              *)
Cancel(p) ==
    /\ pc[p] \notin {"idle", "query", "done", "respond"}
    /\ ~ctx[p].cancelled
    /\ ctx' = [ctx EXCEPT ![p] = [cancelled |-> TRUE, at |-> pc[p]]]
    /\ UNCHANGED <<host, pcall, req, resp, now, ticks, cache, mu, pc, settings, qm, hardLimit,
                   allIssues, issuePrio, offset, reqURL, token, drError, ret, pend, result,
                   callLogins, wire, hist>>

(* params.go 135-146: buildAssuranceParamsFromQuery sets or omits the      *)
(* priority parameter                                                      *)
BuildPriority ==
    /\ pcall.fn = "priority" /\ ~pcall.made
    /\ pcall' = [pcall EXCEPT !.made = TRUE, !.out = PriorityParam(pcall.arg)]
    /\ UNCHANGED <<host, req, resp, ctx, now, ticks, cache, mu, pc, settings, qm,
                   hardLimit, allIssues, issuePrio, offset, reqURL, token, drError, ret,
                   pend, result, callLogins, wire, hist>>

(* params.go 148-158: buildAssuranceParamsFromQuery sets or omits the      *)
(* status parameter                                                        *)
BuildStatus ==
    /\ pcall.fn = "status" /\ ~pcall.made
    /\ pcall' = [pcall EXCEPT !.made = TRUE, !.out = StatusParam(pcall.arg)]
    /\ UNCHANGED <<host, req, resp, ctx, now, ticks, cache, mu, pc, settings, qm,
                   hardLimit, allIssues, issuePrio, offset, reqURL, token, drError, ret,
                   pend, result, callLogins, wire, hist>>

(* params.go 49-59: normalizePriority(priority, severity) *)
NormalizePriority ==
    /\ pcall.fn = "normalizePriority" /\ ~pcall.made
    /\ pcall' = [pcall EXCEPT !.made = TRUE,
                     !.out = normalizePriority(pcall.arg[1], pcall.arg[2])]
    /\ UNCHANGED <<host, req, resp, ctx, now, ticks, cache, mu, pc, settings, qm,
                   hardLimit, allIssues, issuePrio, offset, reqURL, token, drError, ret,
                   pend, result, callLogins, wire, hist>>

(* params.go 63-73: normalizeIssueStatus(issueStatus, status) *)
NormalizeIssueStatus ==
    /\ pcall.fn = "normalizeIssueStatus" /\ ~pcall.made
    /\ pcall' = [pcall EXCEPT !.made = TRUE,
                     !.out = normalizeIssueStatus(pcall.arg[1], pcall.arg[2])]
    /\ UNCHANGED <<host, req, resp, ctx, now, ticks, cache, mu, pc, settings, qm,
                   hardLimit, allIssues, issuePrio, offset, reqURL, token, drError, ret,
                   pend, result, callLogins, wire, hist>>

(* datasource.go 95 and 219-225: the query document is unmarshalled and    *)
(* buildAssuranceParamsFromQuery builds the parameters of the request.     *)
(* The query is passed by value and the builder assigns to none of its     *)
(* fields.                                                                 *)
BuildAssurance ==
    /\ pcall.fn = "assurance" /\ ~pcall.made
    /\ LET a == pcall.arg
       IN  pcall' = [pcall EXCEPT !.made = TRUE,
                        !.out = buildAssuranceParamsFromQuery(QueryModelOf(a.doc),
                                    a.startTime, a.endTime, a.pageSize, a.offset)]
    /\ UNCHANGED <<host, req, resp, ctx, now, ticks, cache, mu, pc, settings, qm,
                   hardLimit, allIssues, issuePrio, offset, reqURL, token, drError, ret,
                   pend, result, callLogins, wire, hist>>

(* datasource.go 95 and 109: the same for buildSiteHealthParamsFromQuery *)
BuildSiteHealth ==
    /\ pcall.fn = "siteHealth" /\ ~pcall.made
    /\ LET a == pcall.arg
       IN  pcall' = [pcall EXCEPT !.made = TRUE,
                        !.out = buildSiteHealthParamsFromQuery(QueryModelOf(a.doc),
                                    a.pageSize, a.offset)]
    /\ UNCHANGED <<host, req, resp, ctx, now, ticks, cache, mu, pc, settings, qm,
                   hardLimit, allIssues, issuePrio, offset, reqURL, token, drError, ret,
                   pend, result, callLogins, wire, hist>>

(* model.go 96-106: IssuesURL(base) *)
BuildIssuesURL ==
    /\ pcall.fn = "IssuesURL" /\ ~pcall.made
    /\ pcall' = [pcall EXCEPT !.made = TRUE, !.out = IssuesURL(pcall.arg)]
    /\ UNCHANGED <<host, req, resp, ctx, now, ticks, cache, mu, pc, settings, qm,
                   hardLimit, allIssues, issuePrio, offset, reqURL, token, drError, ret,
                   pend, result, callLogins, wire, hist>>

(* datasource.go 320-367: the loop that makes a row of every record of the *)
(* issue list                                                              *)
BuildRows ==
    /\ pcall.fn = "rows" /\ ~pcall.made
    /\ LET a == pcall.arg
       IN  pcall' = [pcall EXCEPT !.made = TRUE,
                        !.out = [i \in 1..Len(a.issues) |-> Row(a.issues[i], a.names, a.from)]]
    /\ UNCHANGED <<host, req, resp, ctx, now, ticks, cache, mu, pc, settings, qm,
                   hardLimit, allIssues, issuePrio, offset, reqURL, token, drError, ret,
                   pend, result, callLogins, wire, hist>>

(* datasource.go 296-316: the enrichment of a query: the lookup is made    *)
(* when enrich is set, there are records, and some record has a site id    *)
LookupSites ==
    /\ pcall.fn = "sites" /\ ~pcall.made
    /\ LET a == pcall.arg
           ids == uniqueSiteIDs(a.issues)
       IN  IF a.enrich /\ Len(a.issues) > 0 /\ Cardinality(ids) > 0
           THEN \E siteIDs \in Orders(ids) :
                  pcall' = [pcall EXCEPT !.made = TRUE,
                                         !.out = getSiteNamesByID(a.site, siteIDs)]
           ELSE pcall' = [pcall EXCEPT !.made = TRUE,
                                       !.out = [sent |-> <<>>, names |-> {}, err |-> ""]]
    /\ UNCHANGED <<host, req, resp, ctx, now, ticks, cache, mu, pc, settings, qm,
                   hardLimit, allIssues, issuePrio, offset, reqURL, token, drError, ret,
                   pend, result, callLogins, wire, hist>>

(* datasource.go 140-174: the frame of a site-health query, one field for  *)
(* each metric of the query over the sites that pass the filter            *)
BuildHealthFrame ==
    /\ pcall.fn = "health" /\ ~pcall.made
    /\ LET a == pcall.arg
           sites == filtered(a.response, a.ParentSiteName, a.SiteName)
       IN  pcall' = [pcall EXCEPT !.made = TRUE,
                        !.out = [k \in 1..Len(a.Metrics) |->
                                   [name |-> a.Metrics[k],
                                    values |-> metricField(a.Metrics[k], sites)]]]
    /\ UNCHANGED <<host, req, resp, ctx, now, ticks, cache, mu, pc, settings, qm,
                   hardLimit, allIssues, issuePrio, offset, reqURL, token, drError, ret,
                   pend, result, callLogins, wire, hist>>

(* token.go 72-130 and 135-161: getToken receives the response of the      *)
(* login POST and fails, or calls set or setWithExpiry, which stores the   *)
(* token with an expiry, and returns the token                             *)
HandleLogin ==
    /\ pcall.fn = "login" /\ ~pcall.made
    /\ LET a == pcall.arg
           o == LoginOutcome(a.r, a.t)
       IN  pcall' = [pcall EXCEPT !.made = TRUE,
                        !.out = [err |-> o.err, call |-> o.call,
                                 stored |-> IF o.err = "" THEN StoredExpiry(o.call, a.ts)
                                            ELSE 0]]
    /\ UNCHANGED <<host, req, resp, ctx, now, ticks, cache, mu, pc, settings, qm,
                   hardLimit, allIssues, issuePrio, offset, reqURL, token, drError, ret,
                   pend, result, callLogins, wire, hist>>

Next ==
    \/ Tick
    \/ \E p \in Procs :
         \/ Request(p)
         \/ StartQuery(p)
         \/ LoopTest(p)
         \/ GetTokenBegin(p)
         \/ CacheLock(p)
         \/ CacheCheck(p)
         \/ CredsMissing(p)
         \/ LoginExchange(p)
         \/ SetLock(p)
         \/ SetStore(p)
         \/ PageGet(p)
         \/ RetryGet(p)
         \/ Enrich(p)
         \/ SiteGet(p)
         \/ Done(p)
         \/ Respond(p)

Spec == Init /\ [][Next]_vars
SpecConc == InitConc /\ [][Next]_vars
SpecBatch == InitBatch /\ [][Next]_vars
SpecFilter == InitFilter /\ [][Next]_vars

(* The functions of params.go applied to the inputs of InitParams *)
NextParams ==
    \/ BuildPriority
    \/ BuildStatus
    \/ NormalizePriority
    \/ NormalizeIssueStatus
    \/ BuildAssurance
    \/ BuildSiteHealth
    \/ BuildIssuesURL
    \/ BuildRows
    \/ HandleLogin
    \/ LookupSites
    \/ BuildHealthFrame
SpecParams == InitParams /\ [][NextParams]_vars

(* The behaviours in which the caller may cancel.  A cancelled HTTP call   *)
(* fails like any call that meets a transport error, so the steps of the   *)
(* query after a cancellation are steps it has without one.                *)
NextCancel == Next \/ \E p \in Procs : Cancel(p)
SpecCancel == InitCancel /\ [][NextCancel]_vars

(* The steps of a goroutine once its query has started.  The goroutine is  *)
(* scheduled again and again and every HTTP call it makes returns, so a    *)
(* step that stays possible is eventually taken.                           *)
QueryStep(p) ==
    \/ LoopTest(p) \/ GetTokenBegin(p) \/ CacheLock(p) \/ CacheCheck(p)
    \/ CredsMissing(p) \/ LoginExchange(p) \/ SetLock(p) \/ SetStore(p)
    \/ PageGet(p) \/ RetryGet(p) \/ Enrich(p) \/ SiteGet(p)

SpecLive == InitLive /\ [][Next]_vars /\ \A p \in Procs : WF_vars(QueryStep(p))

---------------------------------------------------------------------------
(* Vocabulary of the properties *)

UID(p) == settings[p].UID
Running(p) == pc[p] \notin {"idle", "done"}
HasOverride(p) == \E k \in 1..Len(settings[p].APIToken) : settings[p].APIToken[k] # " "
HasCreds(p) == settings[p].Username # "" /\ settings[p].Password # ""
Alone(p) == host.active = {p}

(* t is s without its leading and trailing spaces, and is not empty *)
IsTrimOf(t, s) ==
    /\ t # <<>>
    /\ t[1] # " " /\ t[Len(t)] # " "
    /\ \E i \in 0..Len(s) :
         /\ i + Len(t) <= Len(s)
         /\ SubSeq(s, i + 1, i + Len(t)) = t
         /\ \A k \in 1..Len(s) : (k <= i \/ k > i + Len(t)) => s[k] = " "

Holding == {"page_get", "retry_get", "site_get"}   \* getToken has returned a token
InGetToken == {"getToken", "gt_lock", "gt_check", "gt_login", "set_lock", "set_store"}
ListPhase(p) ==
    \/ pc[p] \in {"loop", "page_get", "retry_get"}
    \/ pc[p] \in InGetToken /\ ret[p] # "site"

(* C1: a getToken call that finds an entry stored by a login (its token is *)
(* not the empty token of an invalidation) strictly before that entry's    *)
(* expiry returns the entry's token, issues no login POST and leaves the   *)
(* cache as it is; the login that stored it was the one POST of its call.  *)
C1_SecondCallFromCache ==
    [][\A p \in Procs :
         LET e == cache[UID(p)]
         IN  /\ (pc[p] = "gt_check" /\ pc'[p] # "gt_check"
                 /\ e.present /\ e.Token # <<>> /\ now < e.ExpiresAt)
                => /\ pc'[p] \in Holding
                   /\ token'[p] = e.Token
                   /\ callLogins'[p] = 0
                   /\ cache' = cache
             /\ (pc[p] = "set_store" /\ pend[p].then = "return")
                => callLogins[p] = 1 /\ pend[p].token # <<>>]_vars

(* A later call, after the clock advanced, holds the token cached at time 0 *)
C1_Witness ==
    \E p \in Procs :
        /\ pc[p] = "page_get" /\ ~HasOverride(p)
        /\ callLogins[p] = 0
        /\ ticks > 0
        /\ cache[UID(p)].present /\ cache[UID(p)].ExpiresAt = DefaultTTL
        /\ token[p] = cache[UID(p)].Token

(* C2 as stated: when the iteration of a page answered 401/403 ends, one   *)
(* login POST and one retried GET of the same URL have been made.          *)
C2_Original ==
    \A p \in Procs :
        (ret[p] = "retry" /\ pc[p] \in {"loop", "enrich"})
        => /\ callLogins[p] = 1
           /\ Len(wire[p]) = 2
           /\ wire[p][1] = wire[p][2]

(* C2, amended: after a 401/403 the entry of the instance is overwritten   *)
(* with the empty token and getToken is called once; that call issues at   *)
(* most one login POST: none with an override token or without             *)
(* credentials, one otherwise when no other goroutine runs; if it fails    *)
(* the query fails with "token refresh" and no retried GET, and if it      *)
(* succeeds exactly one retried GET with the same URL is sent.             *)
C2_Amended ==
    \A p \in Procs :
        /\ (ret[p] = "retry" /\ pc[p] = "getToken")
           => /\ Len(wire[p]) = 1
              /\ cache[UID(p)].present
              /\ Alone(p) => cache[UID(p)].Token = <<>>
        /\ (ret[p] = "retry" /\ pc[p] = "retry_get")
           => /\ Len(wire[p]) = 1
              /\ callLogins[p] <= 1
              /\ HasOverride(p) => callLogins[p] = 0
              /\ (~HasOverride(p) /\ Alone(p)) => callLogins[p] = 1
        /\ (ret[p] = "retry" /\ pc[p] \in {"loop", "enrich"})
           => /\ callLogins[p] <= 1
              /\ (HasOverride(p) \/ ~HasCreds(p)) => callLogins[p] = 0
              /\ (~HasOverride(p) /\ HasCreds(p) /\ Alone(p)) => callLogins[p] = 1
              /\ Len(wire[p]) \in {1, 2}
              /\ Len(wire[p]) = 2 => wire[p][1] = wire[p][2]
              /\ Len(wire[p]) = 1 => (drError[p] # <<>> /\ drError[p][1] = "token refresh")

(* A page answered 401/403 was retried once after one login and succeeded *)
C2_Witness ==
    \E p \in Procs :
        /\ ret[p] = "retry" /\ pc[p] \in {"loop", "enrich"}
        /\ Len(wire[p]) = 2 /\ callLogins[p] = 1
        /\ drError[p] = <<>> /\ allIssues[p] > 0

(* C3: the rows of a query's result never exceed its hardLimit *)
C3_RowsWithinCap ==
    \A p \in Procs : result[p].set => result[p].rows <= hardLimit[p]

(* C4: a call that finds no usable entry (none, or one whose expiry is at  *)
(* or before the current time, or whose token is empty) goes on to the     *)
(* login; when the login succeeds it is the one POST of the call, and the  *)
(* entry stored holds the returned token and an expiry after the current   *)
(* time.                                                                   *)
C4_ExpiredRefetch ==
    [][\A p \in Procs :
         LET e == cache[UID(p)]
         IN  /\ (pc[p] = "gt_check" /\ pc'[p] # "gt_check"
                 /\ (~e.present \/ e.ExpiresAt <= now \/ e.Token = <<>>))
                => pc'[p] = "gt_login" /\ callLogins'[p] = 0
             /\ (pc[p] = "gt_login" /\ pc'[p] = "set_lock") => callLogins'[p] = 1
             /\ (pc[p] = "set_store" /\ pc'[p] # "set_store" /\ pend[p].then = "return")
                => /\ callLogins'[p] = 1
                   /\ cache'[UID(p)].ExpiresAt > now
                   /\ cache'[UID(p)].Token = token'[p]
                   /\ token'[p] # <<>>]_vars

(* The login of a call has succeeded while the cache still holds the       *)
(* expired entry the call found                                            *)
C4_Witness ==
    \E p \in Procs :
        /\ pc[p] = "set_store" /\ pend[p].then = "return"
        /\ callLogins[p] = 1
        /\ cache[UID(p)].present /\ cache[UID(p)].Token # <<>>
        /\ cache[UID(p)].ExpiresAt <= now

(* C5: with an override token that is not blank, getToken returns in one   *)
(* step the override without its surrounding spaces; the step makes no     *)
(* login POST and neither locks nor changes the cache.                     *)
C5_OverrideReturned ==
    [][\A p \in Procs :
         (pc[p] = "getToken" /\ pc'[p] # "getToken" /\ HasOverride(p))
         => /\ pc'[p] \in Holding
            /\ IsTrimOf(token'[p], settings[p].APIToken)
            /\ callLogins'[p] = 0
            /\ cache' = cache /\ mu' = mu]_vars

(* The override is held although the cache has a usable, different token *)
C5_Witness ==
    \E p \in Procs :
        /\ pc[p] = "page_get" /\ HasOverride(p)
        /\ settings[p].APIToken # token[p]
        /\ cache[UID(p)].present /\ now < cache[UID(p)].ExpiresAt
        /\ cache[UID(p)].Token \notin {<<>>, token[p]}

(* C6: no step of a query with an override token changes the cache, checks *)
(* it or logs in, and every request of the query carries the override.     *)
C6_OverrideNeverTouchesCache ==
    [][\A p \in Procs :
         (Running(p) /\ pc'[p] # pc[p] /\ HasOverride(p))
         => /\ cache' = cache
            /\ pc'[p] \notin {"gt_lock", "gt_check", "gt_login"}
            /\ pc'[p] \in Holding => IsTrimOf(token'[p], settings[p].APIToken)]_vars

(* C7: a goroutine that reads (gt_check) or writes (set_store) the cache   *)
(* holds the mutex, so no two goroutines are at a cache access together.   *)
C7_CacheUnderMutex ==
    \A p \in Procs : pc[p] \in {"gt_check", "set_store"} => mu = p

(* One goroutine is about to write the cache while another waits for mu *)
C7_Witness ==
    \E p, q \in Procs :
        /\ p # q
        /\ pc[p] = "set_store" /\ mu = p
        /\ pc[q] \in {"gt_lock", "set_lock"}

(* C8 as stated: of the concurrent calls of one instance only one performs *)
(* the login exchange.                                                     *)
C8_Original ==
    \A p, q \in Procs :
        (p # q /\ UID(p) = UID(q))
        => ~ /\ pc[p] \in {"set_lock", "set_store"} /\ pend[p].then = "return"
             /\ pc[q] \in {"set_lock", "set_store"} /\ pend[q].then = "return"

(* C8, amended: the check and the store of a call are two critical         *)
(* sections; the mutex is released when the check fails and is not held    *)
(* by the call during its login, so each concurrent call that found no     *)
(* usable entry makes its own login POST, stores the token of that login   *)
(* and returns it.                                                         *)
C8_SeparateSections ==
    [][\A p \in Procs :
         /\ pc[p] = "gt_login" => mu # p
         /\ (pc[p] = "gt_check" /\ pc'[p] = "gt_login") => mu' = Free
         /\ (pc[p] = "set_store" /\ pc'[p] # "set_store" /\ pend[p].then = "return")
            => /\ callLogins[p] = 1
               /\ token'[p] = pend[p].token
               /\ cache'[UID(p)].Token = pend[p].token
               /\ mu' = Free]_vars

(* Two calls of one instance have each logged in and hold different tokens *)
C8_Witness ==
    \E p, q \in Procs :
        /\ p # q /\ UID(p) = UID(q)
        /\ pc[p] = "set_store" /\ pend[p].then = "return"
        /\ pc[q] = "set_lock" /\ pend[q].then = "return"
        /\ pend[p].token # pend[q].token

(* C9: an iteration sends at most two list GETs; once the retry has failed *)
(* (refresh error, transport error or non-2xx answer of the retried GET)   *)
(* the query carries an error and is past the list phase for good.         *)
C9_RetryFailureIsFinal ==
    \A p \in Procs :
        /\ Len(wire[p]) <= 2
        /\ hist[p].retryFailed
           => /\ ~ListPhase(p)
              /\ pc[p] = "done" => result[p].Error # <<>>
              /\ pc[p] # "done" => drError[p] # <<>>

(* The retried GET was answered non-2xx and the loop is left with an error *)
C9_Witness ==
    \E p \in Procs :
        /\ hist[p].retryFailed /\ pc[p] = "enrich"
        /\ Len(wire[p]) = 2
        /\ drError[p] = <<"issues endpoint returned">>

(* C10: once a page has carried fewer records than its request asked for,  *)
(* the query is past the list phase: it sends no further list GET.         *)
C10_ShortPageStops ==
    \A p \in Procs : hist[p].shortPage => ~ListPhase(p)

(* A first page of fewer records than requested ended the loop *)
C10_Witness ==
    \E p \in Procs :
        /\ hist[p].shortPage /\ pc[p] = "enrich" /\ drError[p] = <<>>
        /\ Len(wire[p]) = 1
        /\ 0 < allIssues[p] /\ allIssues[p] < wire[p][1][1]

(* ceil(n / PageSize) *)
CeilPages(n) == (n + PageSize - 1) \div PageSize

(* C11: a fetch loop that has started ends (every HTTP call returning);    *)
(* it never makes more than ceil(hardLimit / 25) iterations, nor more than *)
(* two list GETs in one iteration, and a new iteration starts only while   *)
(* the accumulated count is below hardLimit and the last page was full.    *)
C11_LoopTerminates ==
    /\ [](\A p \in Procs :
            /\ ListPhase(p) => hist[p].iters <= CeilPages(hardLimit[p])
            /\ Len(wire[p]) <= 2
            /\ (pc[p] = "loop" /\ hist[p].iters > 0)
               => /\ drError[p] = <<>>
                  /\ allIssues[p] >= PageSize * hist[p].iters)
    /\ \A p \in Procs : ListPhase(p) ~> ~ListPhase(p)

(* The loop of a query with hardLimit 30 ended after ceil(30/25) = 2       *)
(* iterations, the second with a retried GET                               *)
C11_Witness ==
    \E p \in Procs :
        /\ pc[p] = "enrich" /\ hardLimit[p] = 30
        /\ hist[p].iters = 2 /\ Len(wire[p]) = 2

(* A list request of p is being prepared, is in flight or is being retried *)
Requesting(p) ==
    \/ pc[p] \in {"page_get", "retry_get"}
    \/ pc[p] \in InGetToken /\ ret[p] \in {"page", "retry"}

(* C12: whenever a list request is prepared or sent, the accumulated count *)
(* is below hardLimit and the limit asked for is min(25, hardLimit -       *)
(* accumulated), which is at least 1; the GETs sent carry that limit.      *)
C12_LimitIsMinOfPageAndRemaining ==
    \A p \in Procs :
        Requesting(p)
        => LET remaining == hardLimit[p] - allIssues[p]
           IN  /\ remaining >= 1
               /\ reqURL[p][1] = IF PageSize < remaining THEN PageSize ELSE remaining
               /\ reqURL[p][1] >= 1
               /\ \A k \in 1..Len(wire[p]) : wire[p][k][1] = reqURL[p][1]

(* hardLimit 30: after a full page of 25 the second request asked for 5    *)
(* records at offset 26, got 5, and the loop ended with 30 records         *)
C12_Witness ==
    \E p \in Procs :
        /\ pc[p] = "enrich" /\ hardLimit[p] = 30 /\ allIssues[p] = 30
        /\ hist[p].iters = 2 /\ wire[p] = << <<5, 26>> >>

(* C13: the k-th iteration of a fetch sends offset 1 + 25 (k - 1): 1, 26,  *)
(* 51, ...; a retried GET carries the offset of the GET it retries; and in *)
(* the list phase the offset changes only by + 25, in the step in which a  *)
(* full page has been accepted without error.                              *)
C13_OffsetsIncrease ==
    [][\A p \in Procs :
         /\ \A k \in 1..Len(wire'[p]) :
               wire'[p][k][2] = 1 + PageSize * (hist'[p].iters - 1)
         /\ (ListPhase(p) /\ offset'[p] # offset[p])
            => /\ pc[p] \in {"page_get", "retry_get"}
               /\ pc'[p] = "loop"
               /\ offset'[p] = offset[p] + PageSize
               /\ drError'[p] = <<>>
               /\ allIssues'[p] >= allIssues[p] + PageSize]_vars

(* The third iteration sent offset 51, twice: the GET and its retry *)
C13_Witness ==
    \E p \in Procs :
        /\ hist[p].iters = 3 /\ offset[p] = 2 * PageSize
        /\ wire[p] = << <<5, 51>>, <<5, 51>> >>

(* C14: a query whose list request failed returns none of the records of  *)
(* its earlier pages, and makes no site lookup for them.                   *)
C14_PartialDiscarded ==
    \A p \in Procs :
        /\ (result[p].set /\ result[p].Error # <<>>) => result[p].rows = 0
        /\ drError[p] # <<>>
           => ~ (pc[p] = "site_get" \/ (pc[p] \in InGetToken /\ ret[p] = "site"))

(* C15: a query whose fetch ended without error and without a record has  *)
(* a result with no error and one frame of zero rows that carries the      *)
(* "no data" notice; a result with one or more rows carries no notice.     *)
C15_EmptyResultIsSuccess ==
    \A p \in Procs :
        /\ (pc[p] = "done" /\ drError[p] = <<>> /\ allIssues[p] = 0)
           => /\ result[p].set /\ result[p].Error = <<>>
              /\ result[p].frames = 1 /\ result[p].rows = 0
              /\ result[p].notice
        /\ (result[p].set /\ result[p].rows >= 1) => ~result[p].notice

(* The first page of a query was empty and its result is the empty frame *)
C15_Witness ==
    \E p \in Procs :
        /\ pc[p] = "done" /\ hist[p].iters = 1 /\ hist[p].shortPage
        /\ result[p].Error = <<>> /\ result[p].rows = 0 /\ result[p].notice

(* C16: when the site lookup has failed (token, transport, status or       *)
(* decoding), the result holds the error of the fetch only (none when the  *)
(* fetch had none), one frame with a row for every record fetched, and the *)
(* site column shows the site ids.                                         *)
C16_EnrichmentFailureNotFatal ==
    \A p \in Procs :
        (pc[p] = "done" /\ hist[p].siteErr # "")
        => /\ result[p].set /\ result[p].Error = drError[p]
           /\ result[p].frames = 1
           /\ result[p].rows = allIssues[p] /\ result[p].rows > 0
           /\ result[p].site = "id"

(* The body of the site response did not decode; the query has its rows    *)
(* and no error                                                            *)
C16_Witness ==
    \E p \in Procs :
        /\ pc[p] = "done" /\ hist[p].siteErr = "failed to decode site response"
        /\ result[p].Error = <<>> /\ result[p].rows = 30 /\ result[p].site = "id"

(* C17: when QueryData returns, the response has an entry for the RefID   *)
(* of each query of the request and for no other; each entry was stored    *)
(* once, as the result of its own query, with that query's error only; a   *)
(* query is run whatever the earlier ones gave: an invalid model has the   *)
(* error and no frame, every other query (the base URL parsing) its frame. *)
C17_OneEntryPerRefID ==
    [][\A p \in Procs :
         /\ pc'[p] = "respond"
            => /\ \A r \in RefIDs :
                    resp'[p][r].set <=> \E k \in 1..Len(req'[p].all) : req'[p].all[k].ref = r
               /\ \A k \in 1..Len(req'[p].all) :
                    LET q == req'[p].all[k]
                        e == resp'[p][q.ref]
                    IN  /\ ~q.model.valid
                           => e.Error = <<"invalid query model">> /\ e.frames = 0
                        /\ (q.model.valid /\ settings'[p].BaseURLOk) => e.frames = 1
         /\ resp'[p] # resp[p] /\ pc[p] = "done"
            => /\ resp[p][req[p].cur] = NoResult
               /\ resp'[p] = [resp[p] EXCEPT ![req[p].cur] = result[p]]
               /\ result[p].set /\ result[p].Error = drError[p]]_vars

(* The first query of a request failed in its fetch, the second returned   *)
(* rows without error                                                      *)
C17_Witness ==
    \E p \in Procs :
        /\ pc[p] = "respond" /\ Len(req[p].all) = 2
        /\ resp[p][1].Error # <<>> /\ resp[p][1].frames = 1
        /\ resp[p][2].Error = <<>> /\ resp[p][2].rows > 0

(* C18: when the context was cancelled during the fetch loop, no page      *)
(* iteration starts once an HTTP call has met the cancellation, the result *)
(* holds the records accumulated and a cancellation error, and the cache   *)
(* entry of the instance is a token with its expiry or the empty token.    *)
C18_CancelledFetchReturnsError ==
    \A p \in Procs :
        (ctx[p].cancelled /\ ctx[p].at \in {"loop", "page_get", "retry_get"} \cup InGetToken)
        => /\ pc[p] = "done"
              => /\ result[p].Error # <<>>
                 /\ result[p].rows = allIssues[p]
           /\ drError[p] # <<>> => ~ListPhase(p)
           /\ cache[UID(p)].present
              => /\ cache[UID(p)].ExpiresAt > 0
                 /\ cache[UID(p)].Token = TrimSpace(cache[UID(p)].Token)

(* The priorities a query selects: the valid values of its filter list *)
Selected(p) == {validPriorities(qm[p].Priority)[k] :
                   k \in 1..Len(validPriorities(qm[p].Priority))}

(* C19: the rows of a query that selects one or more valid priorities have *)
(* selected priorities only.                                               *)
C19_RowsHaveSelectedPriorities ==
    \A p \in Procs :
        (result[p].set /\ Selected(p) # {}) => result[p].prios \subseteq Selected(p)

(* The value P1..P4 that s is, its surrounding spaces and the case of its  *)
(* letter apart; <<>> when s is none of them                               *)
Survivor(s) ==
    LET fits(d) == \E t \in {<<"P", d>>, <<"p", d>>} : IsTrimOf(t, s)
    IN  IF \E d \in {"1", "2", "3", "4"} : fits(d)
        THEN <<"P", CHOOSE d \in {"1", "2", "3", "4"} : fits(d)>>
        ELSE <<>>

(* The survivors of the list ps, in the order of ps *)
Survivors(ps) ==
    LET keep(s) == Survivor(s) # <<>>
        kept == SelectSeq(ps, keep)
    IN  [k \in 1..Len(kept) |-> Survivor(kept[k])]

(* C20: the priority parameter is omitted exactly when no value of the     *)
(* list is one of P1..P4 after trimming and upper-casing; otherwise it is  *)
(* the surviving values, trimmed and upper-cased, in the order of the      *)
(* list, with a comma between two of them.                                 *)
C20_PriorityParam ==
    (pcall.fn = "priority" /\ pcall.made)
    => LET sv == Survivors(pcall.arg)
           v == pcall.out.value
       IN  /\ pcall.out.set <=> Len(sv) > 0
           /\ pcall.out.set
              => /\ Len(v) = 3 * Len(sv) - 1
                 /\ \A k \in 1..Len(sv) :
                      /\ SubSeq(v, 3 * k - 2, 3 * k - 1) = sv[k]
                      /\ k < Len(sv) => v[3 * k] = ","

(* The list [" p3 ", "X9", "P1"] gave the parameter P3,P1 *)
C20_Witness ==
    /\ pcall.made
    /\ pcall.arg = << <<" ", "p", "3", " ">>, <<"X", "9">>, <<"P", "1">> >>
    /\ pcall.out = [set |-> TRUE, value |-> <<"P", "3", ",", "P", "1">>]

(* The list ["X9"] gave no parameter *)
C20_WitnessOmitted ==
    /\ pcall.made /\ pcall.arg = << <<"X", "9">> >> /\ ~pcall.out.set

(* The characters c and d are one letter, in whatever case; or one          *)
(* character that is no letter                                             *)
SameLetter(c, d) ==
    \/ c = d
    \/ \E i \in 1..Len(LowerLetters) : {c, d} = {LowerLetters[i], UpperLetters[i]}

(* s reads a: it is a with spaces around it, the case of the letters apart *)
Reads(s, a) ==
    \E i, j \in 0..Len(s) :
        /\ IsTrimOf(SubSeq(s, i + 1, j), s)
        /\ j - i = Len(a)
        /\ \A k \in 1..Len(a) : SameLetter(s[i + k], a[k])

(* The names of the statuses on the wire *)
WireStatuses ==
    { <<"a", "c", "t", "i", "v", "e">>,
      <<"r", "e", "s", "o", "l", "v", "e", "d">>,
      <<"i", "g", "n", "o", "r", "e", "d">> }

(* The items with a comma between two of them *)
RECURSIVE CommaList(_)
CommaList(items) ==
    IF Len(items) = 0 THEN <<>>
    ELSE IF Len(items) = 1 THEN items[1]
    ELSE CommaList(SubSeq(items, 1, Len(items) - 1)) \o <<",">> \o items[Len(items)]

(* C21: the status parameter is omitted exactly when no value of the list  *)
(* reads ACTIVE, RESOLVED or IGNORED once trimmed and upper-cased; when    *)
(* present it is made of the values that do, each as one of active,        *)
(* resolved, ignored in lower case, in the order of the list, with a comma *)
(* between two of them.                                                    *)
C21_StatusParam ==
    (pcall.fn = "status" /\ pcall.made)
    => LET known(s) == \E a \in WireStatuses : Reads(s, a)
           kept == SelectSeq(pcall.arg, known)
           names == [k \in 1..Len(kept) |->
                        CHOOSE a \in WireStatuses : Reads(kept[k], a)]
       IN  /\ pcall.out.set <=> Len(kept) > 0
           /\ pcall.out.set => pcall.out.value = CommaList(names)

(* The list [" Ignored ", "ACTIVE"] gave the parameter ignored,active *)
C21_Witness ==
    /\ pcall.fn = "status" /\ pcall.made
    /\ pcall.arg = << <<" ", "I", "g", "n", "o", "r", "e", "d", " ">>,
                      <<"A", "C", "T", "I", "V", "E">> >>
    /\ pcall.out.set
    /\ pcall.out.value = <<"i", "g", "n", "o", "r", "e", "d", ",",
                           "a", "c", "t", "i", "v", "e">>

(* The list ["open"] gave no parameter *)
C21_WitnessOmitted ==
    /\ pcall.fn = "status" /\ pcall.made
    /\ pcall.arg = << <<"o", "p", "e", "n">> >> /\ ~pcall.out.set

(* The spellings of the AI-driven flag *)
TrueWords == { <<"t", "r", "u", "e">>, <<"y", "e", "s">>, <<"1">> }
FalseWords == { <<"f", "a", "l", "s", "e">>, <<"n", "o">>, <<"0">> }

(* C22: the parameters of a query whose AI-driven flag reads true, yes or  *)
(* 1 hold aiDriven=true, those of a query whose flag reads false, no or 0  *)
(* hold aiDriven=false, and those of any other query hold no aiDriven.     *)
C22_AIDrivenParam ==
    (pcall.fn = "assurance" /\ pcall.made)
    => LET flag == pcall.arg.doc.aiDriven
           yes == \E w \in TrueWords : Reads(flag, w)
           no == \E w \in FalseWords : Reads(flag, w)
           sent == "aiDriven" \in DOMAIN pcall.out
       IN  /\ yes => sent /\ pcall.out["aiDriven"] = <<"t", "r", "u", "e">>
           /\ no => sent /\ pcall.out["aiDriven"] = <<"f", "a", "l", "s", "e">>
           /\ ~(yes \/ no) => ~sent

(* The names of the priorities and of the statuses, in upper case *)
PriorityNames == { <<"P", d>> : d \in {"1", "2", "3", "4"} }
StatusNames == { ToUpper(a) : a \in WireStatuses }

(* C23: normalizePriority and normalizeIssueStatus return the name the     *)
(* primary input reads, trimmed and in upper case, when it reads one of    *)
(* the allowed names; otherwise the name the legacy input reads in the     *)
(* same way; otherwise the empty string and false.  The primary input wins *)
(* when both read a name.                                                  *)
C23_PrimaryThenLegacy ==
    (pcall.fn \in {"normalizePriority", "normalizeIssueStatus"} /\ pcall.made)
    => LET names == IF pcall.fn = "normalizePriority" THEN PriorityNames ELSE StatusNames
           valid(s) == \E a \in names : Reads(s, a)
           name(s) == CHOOSE a \in names : Reads(s, a)
           primary == pcall.arg[1]
           legacy == pcall.arg[2]
       IN  /\ valid(primary) => pcall.out = [val |-> name(primary), ok |-> TRUE]
           /\ (~valid(primary) /\ valid(legacy))
              => pcall.out = [val |-> name(legacy), ok |-> TRUE]
           /\ (~valid(primary) /\ ~valid(legacy))
              => pcall.out = [val |-> <<>>, ok |-> FALSE]

(* normalizeIssueStatus("ACTIVE", "resolved") returned ACTIVE *)
C23_Witness ==
    /\ pcall.fn = "normalizeIssueStatus" /\ pcall.made
    /\ pcall.arg = << <<"A", "C", "T", "I", "V", "E">>,
                      <<"r", "e", "s", "o", "l", "v", "e", "d">> >>
    /\ pcall.out = [val |-> <<"A", "C", "T", "I", "V", "E">>, ok |-> TRUE]

(* normalizePriority("X9", " p3 ") returned P3 *)
C23_WitnessLegacy ==
    /\ pcall.fn = "normalizePriority" /\ pcall.made
    /\ pcall.arg = << <<"X", "9">>, <<" ", "p", "3", " ">> >>
    /\ pcall.out = [val |-> <<"P", "3">>, ok |-> TRUE]

(* C24: the parameters of a query with no valid value in its priority list *)
(* and a valid value in its legacy severity field hold the priority        *)
(* parameter, with the name the legacy value reads.                        *)
C24_LegacyAliasSent ==
    (pcall.fn = "assurance" /\ pcall.made)
    => LET doc == pcall.arg.doc
           valid(s) == \E a \in PriorityNames : Reads(s, a)
       IN  ((\A k \in 1..Len(doc.priority) : ~valid(doc.priority[k])) /\ valid(doc.severity))
           => /\ "priority" \in DOMAIN pcall.out
              /\ pcall.out["priority"] = CHOOSE a \in PriorityNames : Reads(doc.severity, a)

(* The number a decimal text stands for *)
RECURSIVE Number(_)
Number(v) ==
    IF v = <<>> THEN 0
    ELSE IF Head(v) = "-" THEN 0 - Number(Tail(v))
    ELSE 10 * Number(SubSeq(v, 1, Len(v) - 1))
         + (CHOOSE d \in 0..9 : Digits[d + 1] = v[Len(v)])

(* C25: the limit parameter is the default of the endpoint (100 for the    *)
(* issue list, 25 for site health) when the page size is zero or less,     *)
(* and otherwise the page size brought into 1..1000 for the issue list and *)
(* into 1..50 for site health; the offset parameter is 1 when the offset   *)
(* is below 1 and the offset otherwise.                                    *)
C25_LimitAndOffset ==
    (pcall.fn \in {"assurance", "siteHealth"} /\ pcall.made)
    => LET ps == pcall.arg.pageSize
           off == pcall.arg.offset
           def == IF pcall.fn = "assurance" THEN 100 ELSE 25
           max == IF pcall.fn = "assurance" THEN 1000 ELSE 50
           limit == Number(pcall.out["limit"])
       IN  /\ {"limit", "offset"} \subseteq DOMAIN pcall.out
           /\ ps <= 0 => limit = def
           /\ ps > 0 => /\ limit >= 1 /\ limit <= max
                        /\ ps \in 1..max => limit = ps
                        /\ ps > max => limit = max
           /\ Number(pcall.out["offset"]) = (IF off < 1 THEN 1 ELSE off)

(* A page size of 1001 gave the limit 1000 of the issue list *)
C25_Witness ==
    /\ pcall.fn = "assurance" /\ pcall.made
    /\ pcall.arg.pageSize = 1001 /\ pcall.arg.offset = 0
    /\ pcall.out["limit"] = <<"1", "0", "0", "0">> /\ pcall.out["offset"] = <<"1">>

(* A page size of -5 gave the limit 25 of site health *)
C25_WitnessSiteHealth ==
    /\ pcall.fn = "siteHealth" /\ pcall.made
    /\ pcall.arg.pageSize = 0 - 5 /\ pcall.arg.offset = 26
    /\ pcall.out["limit"] = <<"2", "5">> /\ pcall.out["offset"] = <<"2", "6">>

(* C26: startTime is among the parameters exactly when the start time is   *)
(* above zero, endTime exactly when the end time is, and each stands for   *)
(* the time it was built from.                                             *)
C26_WindowOnlyWhenPositive ==
    (pcall.fn = "assurance" /\ pcall.made)
    => /\ "startTime" \in DOMAIN pcall.out <=> pcall.arg.startTime > 0
       /\ "endTime" \in DOMAIN pcall.out <=> pcall.arg.endTime > 0
       /\ pcall.arg.startTime > 0 => Number(pcall.out["startTime"]) = pcall.arg.startTime
       /\ pcall.arg.endTime > 0 => Number(pcall.out["endTime"]) = pcall.arg.endTime

(* A start time of 1700 and an end time of 0 gave startTime=1700 and no    *)
(* endTime                                                                 *)
C26_Witness ==
    /\ pcall.fn = "assurance" /\ pcall.made
    /\ pcall.arg.startTime = 1700 /\ pcall.arg.endTime = 0
    /\ pcall.out["startTime"] = <<"1", "7", "0", "0">>
    /\ "endTime" \notin DOMAIN pcall.out

(* The filters of a builder that are one string: the parameter and the     *)
(* field of the query document it is built from                            *)
ScalarFilters(fn) ==
    IF fn = "assurance"
    THEN { <<"siteId", "site">>, <<"deviceId", "device">>, <<"macAddress", "mac">> }
    ELSE { <<"siteType", "siteType">> }

(* C27: a call of either builder leaves the query it reads as it was and   *)
(* builds parameters none of which has an empty value: the parameter of a  *)
(* filter that is one string is present exactly when the filter is more    *)
(* than spaces and is then the filter without the spaces around it, and    *)
(* the priority and status parameters are present only with a value that   *)
(* survived.                                                               *)
C27_NoEmptyValues ==
    [][(BuildAssurance \/ BuildSiteHealth)
       => /\ pcall'.arg = pcall.arg
          /\ \A k \in DOMAIN pcall'.out : pcall'.out[k] # <<>>
          /\ \A f \in ScalarFilters(pcall.fn) :
               LET typed == pcall.arg.doc[f[2]]
               IN  IF \E i \in 1..Len(typed) : typed[i] # " "
                   THEN f[1] \in DOMAIN pcall'.out /\ IsTrimOf(pcall'.out[f[1]], typed)
                   ELSE f[1] \notin DOMAIN pcall'.out
          /\ "priority" \in DOMAIN pcall'.out
             => \E k \in 1..Len(pcall.arg.doc.priority) :
                    \E a \in PriorityNames : Reads(pcall.arg.doc.priority[k], a)
          /\ "status" \in DOMAIN pcall'.out
             => \E k \in 1..Len(pcall.arg.doc.status) :
                    \E a \in WireStatuses : Reads(pcall.arg.doc.status[k], a)]_vars

(* The site " s1 ", a device of one space and the priority list ["X9"]     *)
(* gave siteId=s1, no deviceId and no priority                             *)
C27_Witness ==
    /\ pcall.fn = "assurance" /\ pcall.made
    /\ pcall.arg.doc.site = <<" ", "s", "1", " ">> /\ pcall.arg.doc.device = <<" ">>
    /\ pcall.arg.doc.priority = << <<"X", "9">> >>
    /\ pcall.out["siteId"] = <<"s", "1">>
    /\ DOMAIN pcall.out = {"limit", "offset", "siteId"}

(* The path of the base URL raw: what lies between its scheme and host and *)
(* its first "?" or "#"                                                    *)
PathOf(raw) ==
    LET stops == { i \in 1..Len(raw) : raw[i] \in {"?", "#"} }
        end == IF stops = {} THEN Len(raw)
               ELSE (CHOOSE i \in stops : \A j \in stops : i <= j) - 1
    IN  SubSeq(raw, 2, end)

(* The places of path where a segment that is exactly dna begins *)
DnaAt(path) ==
    { k \in 1..Len(path) :
        /\ path[k] = "dna"
        /\ k = 1 \/ path[k - 1] = "/"
        /\ k = Len(path) \/ path[k + 1] = "/" }

(* The text of path before its first segment dna and the "/" that leads    *)
(* to it; empty when no segment is dna                                     *)
VerbatimPrefix(path) ==
    IF DnaAt(path) = {} THEN <<>>
    ELSE LET k == CHOOSE i \in DnaAt(path) : \A j \in DnaAt(path) : i <= j
         IN  SubSeq(path, 1, k - 2)

(* C28: the URL IssuesURL builds is the scheme and host of the base URL,   *)
(* then the segments of its path before the first segment dna as they are  *)
(* written (nothing when no segment is dna), then                          *)
(* /dna/data/api/v1/assuranceIssues, and nothing else: no query and no     *)
(* fragment.                                                               *)
C28_IssuesURL ==
    (pcall.fn = "IssuesURL" /\ pcall.made)
    => pcall.out = <<pcall.arg[1]>> \o VerbatimPrefix(PathOf(pcall.arg))
                   \o <<"/", "dna", "/", "data", "/", "api", "/", "v1", "/",
                        "assuranceIssues">>

(* The primary and the legacy names of the values of a record *)
PrimaryNames == { FieldNames[f][1] : f \in Fields }
LegacyNames == UNION { { FieldNames[f][i] : i \in 2..Len(FieldNames[f]) } : f \in Fields }

(* The records a and b carry the same values, a under primary names only   *)
(* and b under legacy names only                                           *)
SameUnderLegacyNames(a, b) ==
    /\ DOMAIN a \cap LegacyNames = {} /\ DOMAIN b \cap PrimaryNames = {}
    /\ \A k \in (DOMAIN a \cup DOMAIN b) \ (PrimaryNames \cup LegacyNames) :
         k \in DOMAIN a /\ k \in DOMAIN b /\ a[k] = b[k]
    /\ \A f \in Fields :
         LET used == { i \in 2..Len(FieldNames[f]) : FieldNames[f][i] \in DOMAIN b }
         IN  /\ FieldNames[f][1] \in DOMAIN a <=> used # {}
             /\ \A i \in used : b[FieldNames[f][i]] = a[FieldNames[f][1]]

(* C29: two records of the issue list that carry the same values, one      *)
(* under the primary names only and one under the legacy names only, give  *)
(* the same row.                                                           *)
C29_LegacyNamesSameRow ==
    (pcall.fn = "rows" /\ pcall.made
       /\ SameUnderLegacyNames(pcall.arg.issues[1], pcall.arg.issues[2]))
    => pcall.out[1] = pcall.out[2]

(* A record with the names firstOccurredTime, instanceId, title, severity, *)
(* status, type, deviceIp, clientMac and details gave the row of the       *)
(* record with the primary names                                           *)
C29_Witness ==
    /\ pcall.fn = "rows" /\ pcall.made
    /\ SameUnderLegacyNames(pcall.arg.issues[1], pcall.arg.issues[2])
    /\ {"firstOccurredTime", "instanceId", "title", "deviceIp", "details"}
          \subseteq DOMAIN pcall.arg.issues[2]
    /\ pcall.out[1] = pcall.out[2]
    /\ pcall.out[2].TimeMs = 1700 /\ pcall.out[2].ID = <<"v", "2">>
    /\ pcall.out[2].Severity = <<"v", "4">> /\ pcall.out[2].Details = <<"v", "9">>

(* C30: a getToken call that has found no override token and no usable     *)
(* cached entry, for settings whose username or password is empty, returns *)
(* the error of the missing credentials and no token; it has sent no login *)
(* and no other request, and has left the cache as it was.                 *)
C30_NoCredentialsNoRequest ==
    [][\A p \in Procs :
         (pc[p] = "gt_login" /\ ~HasCreds(p) /\ pc'[p] # "gt_login")
         => /\ callLogins'[p] = 0 /\ wire' = wire /\ cache' = cache
            /\ token'[p] = <<>>
            /\ IF ret[p] = "site"
               THEN hist'[p].siteErr = "token for site lookup"
               ELSE drError'[p] = <<IF ret[p] = "page" THEN "token" ELSE "token refresh",
                                    "no username/password provided">>]_vars

(* The first getToken call of a query for settings with a username and no  *)
(* password has returned the error, with no login sent and nothing cached  *)
C30_Witness ==
    \E p \in Procs :
        /\ pc[p] = "enrich" /\ ~HasOverride(p)
        /\ settings[p].Username # "" /\ settings[p].Password = ""
        /\ drError[p] = <<"token", "no username/password provided">>
        /\ callLogins[p] = 0 /\ wire[p] = <<>> /\ ~cache[UID(p)].present

(* C31: a login response with a status of 200..299 gives the X-Auth-Token  *)
(* header without the spaces around it when that is not empty, otherwise   *)
(* the body field Token in the same way, otherwise the body field token;   *)
(* with none of the three the call fails for want of a token.  With any    *)
(* other status the call fails and stores no token.                        *)
C31_TokenExtraction ==
    (pcall.fn = "login" /\ pcall.made /\ ~pcall.arg.r.transportErr)
    => LET r == pcall.arg.r
           blank(v) == \A i \in 1..Len(v) : v[i] = " "
           ok == pcall.out.err = ""
           tok == pcall.out.call.token
       IN  IF r.status \notin 200..299
           THEN pcall.out.err = "token endpoint returned non-2xx"
                /\ pcall.out.call.fn = "none"
           ELSE /\ ~blank(r.xAuthToken) => ok /\ IsTrimOf(tok, r.xAuthToken)
                /\ (blank(r.xAuthToken) /\ ~blank(r.bodyToken))
                   => ok /\ IsTrimOf(tok, r.bodyToken)
                /\ (blank(r.xAuthToken) /\ blank(r.bodyToken) /\ ~blank(r.bodyToken2))
                   => ok /\ IsTrimOf(tok, r.bodyToken2)
                /\ (blank(r.xAuthToken) /\ blank(r.bodyToken) /\ blank(r.bodyToken2))
                   => pcall.out.err = "token not found in response"
                      /\ pcall.out.call.fn = "none"

(* A 204 response with a blank header, Token " b " and token " c " gave    *)
(* the token b                                                             *)
C31_Witness ==
    /\ pcall.fn = "login" /\ pcall.made
    /\ pcall.arg.r.status = 204 /\ pcall.arg.r.xAuthToken = <<" ">>
    /\ pcall.arg.r.bodyToken = <<" ", "b", " ">>
    /\ pcall.arg.r.bodyToken2 = <<" ", "c", " ">>
    /\ pcall.out.err = "" /\ pcall.out.call.token = <<"b">>

(* A 200 response with no token anywhere gave the error *)
C31_WitnessNotFound ==
    /\ pcall.fn = "login" /\ pcall.made /\ ~pcall.arg.r.transportErr
    /\ pcall.arg.r.status = 200 /\ pcall.arg.r.xAuthToken = <<" ">>
    /\ pcall.arg.r.bodyToken = <<>> /\ pcall.arg.r.bodyToken2 = <<" ">>
    /\ pcall.out.err = "token not found in response"

(* The expiries the sources of a login response received at time t offer,  *)
(* source by source in the order of the claim: the expires-in headers, the *)
(* epoch headers, max-age, the Expires date, and the JSON fields when the  *)
(* token is that of the body                                               *)
ExpirySources(r, t) ==
    LET inBody == \A i \in 1..Len(r.xAuthToken) : r.xAuthToken[i] = " "
        rel(S) == { t + v : v \in { x \in S : x > 0 } }
        abs(S, min) == { x \in S : x > min }
    IN  << rel({r.xAuthTokenExpiresIn, r.xTokenExpiresIn}),
           abs({r.xAuthTokenExpiry, r.xTokenExpiry}, t),
           rel({r.maxAge}),
           abs({r.expires}, t),
           IF inBody
           THEN rel({r.expiresIn, r.expires_in, r.expiration})
                \cup abs({r.expiresAt, r.expiry, r.expiration, r.expireTime}, t + 60)
           ELSE {} >>

(* C32: a login that obtains a token stores it through setWithExpiry with  *)
(* an expiry offered by the first source that offers one, in the order     *)
(* expires-in headers, epoch headers, max-age, Expires date, and the JSON  *)
(* fields for a token of the body only; with no source that offers one it  *)
(* stores it through set, with the expiry of 55 minutes after the store.   *)
C32_ExpiryOrder ==
    (pcall.fn = "login" /\ pcall.made /\ pcall.out.err = "")
    => LET src == ExpirySources(pcall.arg.r, pcall.arg.t)
           offering == { k \in 1..Len(src) : src[k] # {} }
       IN  IF offering = {}
           THEN pcall.out.call.fn = "set" /\ pcall.out.stored = pcall.arg.ts + 55 * 60
           ELSE /\ pcall.out.call.fn = "setWithExpiry"
                /\ pcall.out.call.expAt
                     \in src[CHOOSE k \in offering : \A j \in offering : k <= j]

(* A header token with max-age 150 and a JSON expiresIn of 3600 was stored *)
(* for 150 seconds                                                         *)
C32_Witness ==
    /\ pcall.fn = "login" /\ pcall.made /\ pcall.out.err = ""
    /\ pcall.arg.r.xAuthToken = <<"a">> /\ pcall.arg.r.maxAge = 150
    /\ pcall.arg.r.expiresIn = 3600 /\ pcall.arg.r.expires = 0
    /\ pcall.arg.ts = pcall.arg.t
    /\ pcall.out.call.fn = "setWithExpiry" /\ pcall.out.stored = pcall.arg.t + 150

(* A body token with expiresIn 3600 and no header was stored for 3600      *)
(* seconds                                                                 *)
C32_WitnessBody ==
    /\ pcall.fn = "login" /\ pcall.made /\ pcall.out.err = ""
    /\ pcall.arg.r.xAuthToken = <<>> /\ pcall.arg.r.bodyToken = <<"b">>
    /\ pcall.arg.r.expiresIn = 3600
    /\ pcall.out.call.expAt = pcall.arg.t + 3600 /\ pcall.out.stored = pcall.arg.t + 3600

(* A header token with a JSON expiresIn of 3600 and no expiry header was   *)
(* stored for 55 minutes                                                   *)
C32_WitnessHeaderIgnoresBody ==
    /\ pcall.fn = "login" /\ pcall.made /\ pcall.out.err = ""
    /\ pcall.arg.r.xAuthToken = <<"a">> /\ pcall.arg.r.expiresIn = 3600
    /\ pcall.out.call.fn = "set" /\ pcall.out.stored = pcall.arg.ts + 3300

(* A login that stored its token through setWithExpiry at time ts *)
StoredDerived ==
    /\ pcall.fn = "login" /\ pcall.made /\ pcall.out.err = ""
    /\ pcall.out.call.fn = "setWithExpiry"

(* C33 as stated: a derived expiry at least one minute after the store is  *)
(* stored unchanged, an earlier one is replaced by the store time plus     *)
(* five minutes.                                                           *)
C33_Original ==
    StoredDerived
    => pcall.out.stored = IF pcall.out.call.expAt >= pcall.arg.ts + 60
                          THEN pcall.out.call.expAt
                          ELSE pcall.arg.ts + 5 * 60

(* C33: a derived expiry more than one minute after the store is stored    *)
(* unchanged, one that is a minute or less after it is replaced by the     *)
(* store time plus five minutes; every login stores an expiry more than a  *)
(* minute after the store.                                                 *)
C33_ExpiryGuard ==
    (pcall.fn = "login" /\ pcall.made /\ pcall.out.err = "")
    => /\ pcall.out.stored > pcall.arg.ts + 60
       /\ StoredDerived
          => pcall.out.stored = IF pcall.out.call.expAt > pcall.arg.ts + 60
                                THEN pcall.out.call.expAt
                                ELSE pcall.arg.ts + 5 * 60

(* An expiry exactly one minute after the store was replaced *)
C33_Witness ==
    /\ StoredDerived
    /\ pcall.out.call.expAt = pcall.arg.ts + 60
    /\ pcall.out.stored = pcall.arg.ts + 300

(* An expiry 61 seconds after the store was stored unchanged *)
C33_WitnessKept ==
    /\ StoredDerived
    /\ pcall.out.call.expAt = pcall.arg.ts + 61
    /\ pcall.out.stored = pcall.out.call.expAt

(* The entry of the instance of p is the one an invalidation stores *)
Invalidated(p) ==
    cache[UID(p)].present /\ TrimSpace(cache[UID(p)].Token) = <<>>

(* C34: the getToken called after the invalidation that finds the entry    *)
(* of its instance as the invalidation stored it goes on to the credential *)
(* check and the login, whatever the expiry of the entry; it returns a     *)
(* token only from the store of its own login, the token it has just       *)
(* stored, and otherwise the query gets the error "token refresh".         *)
C34_InvalidatedForcesLogin ==
    [][\A p \in Procs :
         /\ (pc[p] = "gt_check" /\ pc'[p] # "gt_check" /\ Invalidated(p))
            => (pc'[p] = "gt_login" /\ token'[p] = token[p])
         /\ (pc[p] \in {"gt_login", "set_store"} /\ ret[p] = "retry"
                /\ pc'[p] \notin InGetToken)
            => \/ /\ pc[p] = "set_store" /\ pc'[p] = "retry_get"
                  /\ callLogins[p] = 1
                  /\ token'[p] # <<>>
                  /\ cache'[UID(p)].Token = token'[p]
               \/ /\ pc[p] = "gt_login" /\ pc'[p] = "enrich"
                  /\ drError'[p][1] = "token refresh"
                  /\ cache' = cache]_vars

(* The refresh after an invalidation has logged in and the retried GET is  *)
(* about to carry the fresh token, which is the cached one                 *)
C34_Witness ==
    \E p \in Procs :
        /\ pc[p] = "retry_get" /\ ret[p] = "retry" /\ callLogins[p] = 1
        /\ token[p] # <<>> /\ cache[UID(p)].Token = token[p]

(* The refresh after an invalidation has failed *)
C34_WitnessFails ==
    \E p \in Procs :
        /\ pc[p] = "enrich" /\ drError[p] # <<>> /\ drError[p][1] = "token refresh"
        /\ Invalidated(p)

(* The attributes of a row that are read from candidate fields, in the     *)
(* order of FieldNames, and the two that have one field                    *)
Attributes ==
    <<"TimeMs", "ID", "Title", "Severity", "Status", "Category", "Device", "MAC",
      "Details">>

(* The value v qualifies for an attribute of the kind: a string that is    *)
(* more than spaces, or a number that is not zero, and whose whole part is *)
(* not zero when whole is asked for                                        *)
Qualifies(v, kind, whole) ==
    /\ v.t = kind
    /\ kind = "string" => \E i \in 1..Len(v.s) : v.s[i] # " "
    /\ kind = "number" => (v.n # 0 \/ (~whole /\ v.d # 0))

(* The candidates of names, in order, that the record it holds with a      *)
(* value that qualifies                                                    *)
Qualifying(it, names, kind, whole) ==
    { i \in 1..Len(names) :
        names[i] \in DOMAIN it /\ Qualifies(it[names[i]], kind, whole) }

(* The attribute x of a row is the value of the first candidate of names   *)
(* that qualifies in it, and the empty text, or the time from, when none   *)
(* does                                                                    *)
FirstQualifying(x, it, names, kind, whole, from) ==
    LET q == Qualifying(it, names, kind, whole)
        v == it[names[CHOOSE i \in q : \A j \in q : i <= j]]
    IN  IF kind = "number"
        THEN x = (IF q = {} THEN from ELSE v.n) /\ (q # {} => v.d = 0)
        ELSE x = (IF q = {} THEN <<>> ELSE v.s)

C35_WitnessTime ==
    /\ pcall.fn = "rows" /\ pcall.made
    /\ pcall.arg.issues[1]["timestamp"] = Frac(0, 5)
    /\ pcall.out[1].TimeMs = pcall.arg.from

(* A record whose ruleId is one space and whose siteId is null got that    *)
(* space as its rule and the empty text as its site                        *)
C35_WitnessRule ==
    /\ pcall.fn = "rows" /\ pcall.made
    /\ "ruleId" \in DOMAIN pcall.arg.issues[1]
    /\ pcall.arg.issues[1]["ruleId"] = Str(<<" ">>)
    /\ pcall.arg.issues[1]["siteId"] = Null
    /\ pcall.out[1].Rule = <<" ">> /\ pcall.out[1].Site = <<>>

(* The site ids of the records of a query: the values of siteId that are  *)
(* a string and not the empty one                                          *)
SiteIdsOf(issues) ==
    { issues[i]["siteId"].s :
        i \in { k \in 1..Len(issues) :
                  /\ "siteId" \in DOMAIN issues[k]
                  /\ issues[k]["siteId"].t = "string"
                  /\ issues[k]["siteId"].s # <<>> } }

(* C36: the enrichment of a query sends at most one site request, whose    *)
(* siteId parameter is the site ids of the fetched records, each once,     *)
(* in some order, with a comma between two of them; it sends one when      *)
(* enrichment is on, some record has a site id and a token is obtained,    *)
(* and none when enrichment is off, no record was fetched or no record     *)
(* has a site id; no pair of the mapping has an empty id or an empty name. *)
C36_OneBatchedLookup ==
    (pcall.fn = "sites" /\ pcall.made)
    => LET a == pcall.arg
           wanted == SiteIdsOf(a.issues)
           n == Cardinality(wanted)
       IN  /\ Len(pcall.out.sent) <= 1
           /\ (~a.enrich \/ Len(a.issues) = 0 \/ wanted = {}) => pcall.out.sent = <<>>
           /\ (a.enrich /\ wanted # {} /\ a.site.tokenOk) => Len(pcall.out.sent) = 1
           /\ pcall.out.sent # <<>>
              => \E order \in [1..n -> wanted] :
                     /\ \A id \in wanted : \E i \in 1..n : order[i] = id
                     /\ pcall.out.sent[1] = CommaList(order)
           /\ \A e \in pcall.out.names : e[1] # <<>> /\ e[2] # <<>>

(* Records of the sites s1, s2 and s1 again gave one request for the two   *)
(* ids, and of the sites of the response the one with an empty id was left *)
(* out of the mapping                                                      *)
C36_Witness ==
    /\ pcall.fn = "sites" /\ pcall.made
    /\ Len(pcall.arg.issues) = 3
    /\ pcall.arg.site.response = << [ID |-> <<>>, Name |-> <<"X">>],
                                    [ID |-> <<"s", "1">>, Name |-> <<"H", "Q">>] >>
    /\ pcall.out.sent = << <<"s", "2", ",", "s", "1">> >>
    /\ pcall.out.names = { << <<"s", "1">>, <<"H", "Q">> >> }

(* Records without a site id gave no request though enrichment was on *)
C36_WitnessNone ==
    /\ pcall.fn = "sites" /\ pcall.made
    /\ pcall.arg.enrich /\ Len(pcall.arg.issues) = 2
    /\ "siteId" \in DOMAIN pcall.arg.issues[1]
    /\ pcall.arg.issues[1]["siteId"] = Null
    /\ "siteId" \notin DOMAIN pcall.arg.issues[2]
    /\ pcall.out.sent = <<>> /\ pcall.out.names = {}

(* C37: no step of a getToken call before its store changes the cache, so *)
(* a call that returns an error, which it does from the credential check   *)
(* or from the login exchange, has left every entry as it was; the store   *)
(* is made only by a call that then returns its token.                     *)
C37_FailureKeepsCache ==
    [][\A p \in Procs :
         /\ (pc[p] \in {"getToken", "gt_lock", "gt_check", "gt_login"}
                /\ pc'[p] # pc[p])
            => cache' = cache
         /\ (pc[p] \in InGetToken /\ pc'[p] \notin InGetToken /\ pc'[p] \notin Holding)
            => (pc[p] = "gt_login" /\ cache' = cache)
         /\ (pc[p] = "set_store" /\ pend[p].then = "return" /\ pc'[p] # pc[p])
            => (pc'[p] \in Holding /\ token'[p] = pend[p].token)]_vars

(* A getToken call has failed while the cache held the token of an earlier *)
(* login, expired by then, and the entry is still there                    *)
C37_Witness ==
    \E p \in Procs :
        /\ pc[p] = "enrich" /\ drError[p] # <<>> /\ drError[p][1] = "token"
        /\ cache[UID(p)].present /\ cache[UID(p)].Token # <<>>
        /\ now >= cache[UID(p)].ExpiresAt

(* C38: whenever getToken has returned a token to a query, and so         *)
(* whenever a request is about to carry it in its header, the token is     *)
(* more than spaces.                                                       *)
C38_NeverEmptyToken ==
    \A p \in Procs :
        pc[p] \in Holding => \E i \in 1..Len(token[p]) : token[p][i] # " "

(* A query holds the token of its login for its retried request while the  *)
(* cache holds the empty token that the invalidation of the other query    *)
(* has stored                                                              *)
C38_Witness ==
    \E p, q \in Procs :
        /\ p # q /\ UID(p) = UID(q)
        /\ pc[p] = "retry_get" /\ token[p] # <<>>
        /\ pc[q] = "getToken" /\ ret[q] = "retry"
        /\ Invalidated(p)

(* C39: the store of the invalidation that follows a 401/403 leaves the   *)
(* entry of the instance as it is when the entry holds a token other than  *)
(* the one the rejected request carried, and the refresh that follows then *)
(* makes no login.                                                         *)
C39_InvalidationKeepsNewerToken ==
    [][\A p \in Procs :
         (/\ pc[p] = "set_store" /\ pend[p].then = "refresh" /\ pc'[p] # pc[p]
          /\ Usable(cache[UID(p)], now) /\ cache[UID(p)].Token # token[p])
         => cache'[UID(p)] = cache[UID(p)]]_vars

(* The sites of a site-health response that the filter of the query lets  *)
(* through: those whose parentSiteName and siteName are the ones asked     *)
(* for, when one is asked for                                              *)
Passing(a) ==
    { i \in 1..Len(a.response) :
        LET site == a.response[i]
        IN  /\ a.ParentSiteName # <<>>
               => site["parentSiteName"] = Str(a.ParentSiteName)
            /\ a.SiteName # <<>> => site["siteName"] = Str(a.SiteName) }

(* C40: every field of the frame of a site-health query has one value for  *)
(* each site that passes the filter, whatever the type of the value of its *)
(* metric, so the fields of a frame are of one length.                     *)
C40_OneValuePerSite ==
    (pcall.fn = "health" /\ pcall.made)
    => /\ Len(pcall.out) = Len(pcall.arg.Metrics)
       /\ \A k \in 1..Len(pcall.out) :
            Len(pcall.out[k].values) = Cardinality(Passing(pcall.arg))

TypeOK ==
    /\ mu \in Procs \cup {Free}
    /\ \A p \in Procs : allIssues[p] >= 0 /\ Len(wire[p]) <= 2

=============================================================================
